---- MODULE Spec2Model ----
(***************************************************************************)
(* Verification model of nabud's connection registry (conn.c) and of the   *)
(* NABU Adaptor event loop (adaptor.c).                                    *)
(*                                                                         *)
(* Two specifications share the module:                                    *)
(*   Spec         connection creation, worker threads, conn_destroy and    *)
(*                conn_enumerate running concurrently over the registry;   *)
(*   SpecAdaptor  the protocol state machine of one connection.            *)
(*                                                                         *)
(* Heap model: a freed connection structure keeps the values last written  *)
(* to it (the allocator does not recycle it inside the modelled window);   *)
(* mem[c] records that it has been freed, so every later access is a       *)
(* visible use-after-free.                                                 *)
(***************************************************************************)
EXTENDS Integers, Sequences, FiniteSets, TLC

\* ---------------------------------------------------------------- bounds
NumConns == 2
NumEnums == 1

Conns == 1..NumConns
Enums == 1..NumEnums
NULL  == 0

VARIABLES
    \* ---- conn.c: the registry
    conn_list,          \* TAILQ of connections, head first
    conn_count,         \* unsigned int conn_count
    conn_list_mutex,    \* owner of conn_list_mutex, NoOwner when free
    conn_list_enum_cv,  \* set of threads blocked in pthread_cond_wait
    mem,                \* per connection: "unalloc", "live", "freed"
    on_list,            \* conn->on_list
    enum_count,         \* conn->enum_count
    cr_pc, cr_conn,     \* the thread running conn_create_common
    t_pc,               \* per connection: its worker / conn_destroy position
    rm_blocked,         \* history: conn_remove(c) has blocked on the cv
    en_pc, en_cur, en_rv, \* per conn_enumerate call: position, conn, rv
    en_h                \* history of the call (snapshot, visits, ...)

\* =====================================================================
\* adaptor.c: the Adaptor event loop of one connection
\* =====================================================================

\* ------------------------------------------------- protocol constants
NABU_MSG_CLASSIC_FIRST  == 128      \* 0x80
NABU_MSG_CLASSIC_LAST   == 239      \* 0xEF
NABU_MSG_RESET          == 128      \* 0x80
NABU_MSG_MYSTERY        == 129      \* 0x81
NABU_MSG_START_UP       == 130      \* 0x82
NABU_MSG_GET_STATUS     == 131      \* 0x83
NABU_MSG_PACKET_REQUEST == 132      \* 0x84
NABU_MSG_CHANGE_CHANNEL == 133      \* 0x85
NABU_MSGSEQ_ACK         == <<16, 6>>
NABU_MSGSEQ_FINISHED    == <<16, 225>>
NABU_STATE_CONFIRMED    == 228      \* 0xE4
NABU_SIGNAL_STATUS_YES  == 31       \* 0x1F
NABU_SIGNAL_STATUS_NO   == 16       \* 0x10
NABU_SERVICE_AUTHORIZED   == 31     \* 0x1F
NABU_SERVICE_UNAUTHORIZED == 16     \* 0x10
NABU_STATUS_SIGNAL      == 1
NABU_STATUS_TRANSMIT    == 30       \* 0x1E
NABU_IMAGE_TIME         == 8388607  \* 0x7FFFFF
NABU_MAXPAYLOADSIZE     == 991
NABU_HEADERSIZE         == 16
NABU_FOOTERSIZE         == 2
NABU_TOTALPAYLOADSIZE   ==
    NABU_HEADERSIZE + NABU_MAXPAYLOADSIZE + NABU_FOOTERSIZE
NABU_MAXPACKETSIZE      == NABU_TOTALPAYLOADSIZE
NABU_TIMESIZE           == 9        \* sizeof(struct nabu_time)

NABU_MSG_IS_CLASSIC(b) ==
    b >= NABU_MSG_CLASSIC_FIRST /\ b <= NABU_MSG_CLASSIC_LAST

\* opcodes claimed by the two sub-protocol handlers
RetroNetOps == {241}
NhacpOps    == {242}

\* ------------------------------------------------- sampled inputs
\* opcode bytes the client sends: the six classic requests, the byte one
\* past the handler table (0x86), classic bytes without handler (0x87,
\* 0x8F), the sub-protocol opcodes and a byte nobody handles
OpcodeBytes == {128, 129, 130, 131, 132, 133, 134, 135, 143, 241, 242, 0}
SegmentBytes == {0, 1, 2}
ImageIds == {1, 2, 3, NABU_IMAGE_TIME}
StatusBytes == {NABU_STATUS_SIGNAL, NABU_STATUS_TRANSMIT, 0}
ChannelCodes == {1, 2, 9}
AckBytes == {16, 6, 0}

\* the channel table: channel 1 serves raw images, channel 2 PAK files
\* (a channel is named by its number, NULL is no channel)
Channels == {1, 2}
ChannelType(ch) ==
    IF ch = 2 THEN "IMAGE_CHANNEL_PAK" ELSE "IMAGE_CHANNEL_NABU"
ChannelDefaultFile(ch) == IF ch = 2 THEN 1 ELSE NULL
ChannelRetroNetEnabled(ch) == ch = 2

\* length of the images a channel can deliver (0: no such image)
ImageLength(type, number) ==
    IF type = "IMAGE_CHANNEL_PAK"
    THEN CASE number = 1 -> 2022
           [] number = 3 -> 1020
           [] OTHER -> 0
    ELSE CASE number = 1 -> 1500
           [] number = 3 -> 991
           [] OTHER -> 0

NoImage == [number |-> 0, length |-> 0, channel |-> NULL]

VARIABLES
    a_pc,              \* position of the worker in adaptor_event_loop
    io_state,          \* conn_io state
    watchdog,          \* armed watchdog in seconds, 0 when disarmed
    msg,               \* opcode byte of the request being handled
    out,               \* bytes sent since that opcode byte was received
    nrecv,             \* bytes received for the request after its opcode
    offered,           \* handlers the opcode has been passed to
    a_handled,         \* who handled the request
    prev_declined,     \* the request before this one was declined by all
    l_last_image, l_channel, l_selected_file, retronet_enabled,
    nhacp_sessions,    \* ! LIST_EMPTY(&conn->nhacp_sessions)
    retronet,          \* conn->retronet != NULL
    a_ack,             \* the expect_ack in progress and what follows it
    a_req              \* history: the body of the request and its ACK wait

connvars == <<l_last_image, l_channel, l_selected_file, retronet_enabled,
              nhacp_sessions, retronet>>
advars == <<a_pc, io_state, watchdog, msg, out, nrecv, offered, a_handled,
            prev_declined, a_req, connvars, a_ack>>

NoAck == [for |-> "none", pktlen |-> 0, unload |-> FALSE,
          img |-> NoImage, last |-> FALSE]

\* status: the status type byte of a GET_STATUS; segment, image: the body
\* of a PACKET_REQUEST; loaded: what image_load() returned for it ("null",
\* "image", or "na" when it was not called); acked: outcome of the wait
\* for the client's ACK ("none" until it is over); rx: the bytes received
\* during that wait
NoReq == [status |-> -1, segment |-> -1, image |-> -1, loaded |-> "na",
          acked |-> "none", rx |-> <<>>]

InitAdaptor ==
    /\ a_pc = "top"
    /\ io_state = "OK"
    /\ watchdog = 0
    /\ msg = 0
    /\ out = <<>>
    /\ nrecv = 0
    /\ offered = {}
    /\ a_handled = "init"
    /\ prev_declined = FALSE
    /\ l_last_image = NoImage
    /\ l_channel = NULL
    /\ l_selected_file = NULL
    /\ retronet_enabled = FALSE
    /\ nhacp_sessions = FALSE
    /\ retronet = FALSE
    /\ a_ack = NoAck
    /\ a_req = NoReq

\* =====================================================================
\* adaptor.c: the frame codec (adaptor_escape_packet, adaptor_send_image)
\* applied to sampled buffers and images
\* =====================================================================
NABU_MSG_ESCAPE == 16               \* 0x10

\* longest buffer handed to adaptor_escape_packet
MaxBufLen == 3

\* bytes of those buffers: the escape value and two others
BufBytes == {NABU_MSG_ESCAPE, 6, 225}
BufInputs == UNION {[1..n -> BufBytes] : n \in 0..MaxBufLen}

\* image lengths around one and two payloads, around the shortest slice
\* a PAK may deliver, and one beyond 64 KiB; segment numbers around the
\* first payloads and around 2^16 / 991
ImageLengths == {2, 9, 19, 20, 990, 991, 992, 1011, 1982, 1983, 70000}
SegmentNumbers == {0, 1, 2, 66, 67, 70, 255}

VARIABLES
    p_pc,       \* "idle", "escape", "escaping", "image", "escaped", "sent"
    p_buf,      \* buf, len of adaptor_escape_packet
    p_i,        \* its loop index i
    pktbuf,     \* conn->pktbuf[0 .. conn->pktlen - 1]
    p_img,      \* img, segment of adaptor_send_image and whether malloc works
    p_res       \* what adaptor_send_image did

pktvars == <<p_pc, p_buf, p_i, pktbuf, p_img, p_res>>

NoHdr == [image |-> 0, segment_lsb |-> 0, last |-> FALSE, segment |-> 0,
          offset |-> 0]
NoResult == [auth |-> FALSE, last |-> FALSE, pktlen |-> 0, hdr |-> NoHdr,
             payload |-> [from |-> 0, to |-> 0],
             crc |-> [over |-> 0, at |-> 0],
             asserted |-> TRUE, fatal |-> FALSE]
NoCall == [img |-> NoImage, segment |-> 0, malloc_ok |-> TRUE]

\* no codec call in progress
InitCodecIdle ==
    /\ p_pc = "idle"
    /\ p_buf = <<>>
    /\ p_i = 0
    /\ pktbuf = <<>>
    /\ p_img = NoCall
    /\ p_res = NoResult

\* a call of adaptor_escape_packet or of adaptor_send_image is about to
\* be made; pktbuf holds what the previous packet left in it
InitCodec ==
    /\ p_pc \in {"escape", "image"}
    /\ p_i = 0
    /\ p_res = NoResult
    /\ IF p_pc = "escape"
       THEN /\ p_buf \in BufInputs
            /\ pktbuf \in {<<>>, <<6, 6>>}
            /\ p_img = NoCall
       ELSE /\ p_buf = <<>>
            /\ pktbuf = <<>>
            /\ p_img \in [img : [number : {1, NABU_IMAGE_TIME},
                                 length : ImageLengths,
                                 channel : {NULL} \cup Channels],
                          segment : SegmentNumbers,
                          malloc_ok : BOOLEAN]

\* =====================================================================
\* conn.c: one connection from conn_create_common to conn_destroy, its
\* mutex and the accessors of the fields the mutex protects
\* =====================================================================

\* requests the worker makes of the connection before its loop returns
MaxOps == 2

\* the threads that touch the connection: the one in conn_create_common,
\* the connection's worker, and one more (a listener taking its
\* snapshot, a registry enumerator) reading it
Threads == {"creator", "worker", "reader"}

\* file names: a string is its length, NULL is no string
Files == {1, 2}
FileLen(f) == f

\* the images image.c caches on the connection
Images == {[number |-> 1, length |-> 1500, channel |-> 1],
           [number |-> 3, length |-> 991, channel |-> 1]}

VARIABLES
    conn_mutex,    \* owner of conn->mutex, "free" when unlocked
    k_pc,          \* per thread: where it is
    k_loc,         \* per thread: arguments and locals of its call
    k_ops,         \* requests the worker has made
    k_res,         \* what the connection owns
    k_h            \* history of the calls

accvars == <<conn_mutex, k_pc, k_loc, k_ops, k_res, k_h>>

\* chan, file, img, match: arguments; old: the pointer saved for after
\* the unlock; sel, len, cp: locals of conn_get_selected_file; ret: where
\* the caller continues
NoLocals == [chan |-> NULL, file |-> NULL, img |-> NoImage,
             match |-> NoImage, old |-> NULL, oimg |-> NoImage,
             sel |-> NULL, len |-> 0, cp |-> NULL, ret |-> "idle"]

\* clean: the channel of the last completed conn_set_channel while no
\* selection has been made since (NULL otherwise); unlocked: fields
\* accessed without the mutex; lif: the last conn_set_last_image_if;
\* got: the last conn_get_selected_file
NoHistory ==
    [clean |-> NULL,
     unlocked |-> {},
     lif |-> [called |-> FALSE, prior |-> NoImage, match |-> NoImage,
              ret |-> NoImage],
     got |-> [state |-> "none", clean |-> NULL, disturbed |-> FALSE,
              oom |-> FALSE, value |-> NULL]]

InitAccessor ==
    /\ conn_mutex = "free"
    /\ k_pc = [t \in Threads |-> IF t = "creator" THEN "calloc" ELSE "off"]
    /\ k_loc = [t \in Threads |-> NoLocals]
    /\ k_ops = 0
    /\ k_res = [registered |-> FALSE, endpoint |-> "none",
                file_root |-> "null", conn |-> "live", sel_alloc |-> 0,
                released |-> {}]
    /\ k_h = NoHistory


\* =====================================================================
\* conn.c: the connection registry
\* =====================================================================
regvars == <<conn_list, conn_count, conn_list_mutex, conn_list_enum_cv, mem,
             on_list, enum_count, cr_pc, cr_conn, t_pc, rm_blocked,
             en_pc, en_cur, en_rv, en_h>>

vars == <<regvars, advars, pktvars, accvars>>

NoOwner   == <<>>
Creator   == <<"create">>
Destroyer(c) == <<"destroy", c>>
Enumerator(e) == <<"enum", e>>

Range(s) == {s[i] : i \in 1..Len(s)}
InList(c) == c \in Range(conn_list)

\* TAILQ_FIRST / TAILQ_NEXT / TAILQ_INSERT_TAIL / TAILQ_REMOVE
TAILQ_FIRST == IF Len(conn_list) = 0 THEN NULL ELSE conn_list[1]
TAILQ_NEXT(c) ==
    LET idx == {i \in 1..Len(conn_list) : conn_list[i] = c}
    IN  IF idx = {} THEN NULL
        ELSE LET i == CHOOSE j \in idx : TRUE
             IN  IF i < Len(conn_list) THEN conn_list[i + 1] ELSE NULL
TAILQ_INSERT_TAIL(c) == Append(conn_list, c)
TAILQ_REMOVE(c) == SelectSeq(conn_list, LAMBDA x : x # c)

\* missed: the connections of the snapshot taken at the first lock that
\* the callback has not been invoked on; hit: it was invoked on one of them
EnumHistInit == [missed |-> {}, hit |-> FALSE, sawfalse |-> FALSE,
                 late |-> FALSE, held |-> NULL, bcast |-> TRUE]

InitRegistry ==
    /\ conn_list = <<>>
    /\ conn_count = 0
    /\ conn_list_mutex = NoOwner
    /\ conn_list_enum_cv = {}
    /\ mem = [c \in Conns |-> "unalloc"]
    /\ on_list = [c \in Conns |-> FALSE]
    /\ enum_count = [c \in Conns |-> 0]
    /\ cr_pc = "idle"
    /\ cr_conn = NULL
    /\ t_pc = [c \in Conns |-> "none"]
    /\ rm_blocked = [c \in Conns |-> FALSE]
    /\ en_pc = [e \in Enums |-> "idle"]
    /\ en_cur = [e \in Enums |-> NULL]
    /\ en_rv = [e \in Enums |-> TRUE]
    /\ en_h = [e \in Enums |-> EnumHistInit]

\* ------------------------------------------------ conn_create_common
\* calloc() the connection, conn_io_init() and conn_io_start() succeed:
\* the worker thread runs from here on, conn_insert() is still to come.
conn_create_common(c) ==
    /\ cr_pc = "idle"
    /\ mem[c] = "unalloc"
    /\ \A d \in Conns : d < c => mem[d] # "unalloc"
    /\ mem' = [mem EXCEPT ![c] = "live"]
    /\ on_list' = [on_list EXCEPT ![c] = FALSE]
    /\ enum_count' = [enum_count EXCEPT ![c] = 0]
    /\ t_pc' = [t_pc EXCEPT ![c] = "loop"]
    /\ cr_pc' = "insert"
    /\ cr_conn' = c
    /\ UNCHANGED <<advars, pktvars, accvars, conn_list, conn_count, conn_list_mutex, conn_list_enum_cv,
                   rm_blocked, en_pc, en_cur, en_rv, en_h>>

\* conn_io_init() or conn_io_start() fails: goto bad, conn_destroy(conn)
\* runs on the creating thread and no worker exists; its conn_remove()
\* finds on_list false, as calloc() left it.
conn_create_common_bad(c) ==
    /\ cr_pc = "idle"
    /\ mem[c] = "unalloc"
    /\ \A d \in Conns : d < c => mem[d] # "unalloc"
    /\ mem' = [mem EXCEPT ![c] = "live"]
    /\ on_list' = [on_list EXCEPT ![c] = FALSE]
    /\ enum_count' = [enum_count EXCEPT ![c] = 0]
    /\ t_pc' = [t_pc EXCEPT ![c] = "teardown"]
    /\ cr_pc' = "bad"
    /\ cr_conn' = c
    /\ UNCHANGED <<advars, pktvars, accvars, conn_list, conn_count, conn_list_mutex, conn_list_enum_cv,
                   rm_blocked, en_pc, en_cur, en_rv, en_h>>

\* ------------------------------------------------------- conn_insert
\* pthread_mutex_lock(); TAILQ_INSERT_TAIL(&conn_list, conn, link)
conn_insert_link ==
    /\ cr_pc = "insert"
    /\ conn_list_mutex = NoOwner
    /\ conn_list_mutex' = Creator
    /\ conn_list' = TAILQ_INSERT_TAIL(cr_conn)
    /\ cr_pc' = "ins_linked"
    /\ UNCHANGED <<advars, pktvars, accvars, conn_count, conn_list_enum_cv, mem,
                   on_list, enum_count, cr_conn, t_pc, rm_blocked,
                   en_pc, en_cur, en_rv, en_h>>

\* conn->on_list = true; conn_count++; pthread_mutex_unlock()
conn_insert_flag_noflag ==
    /\ cr_pc = "ins_linked"
    /\ conn_count' = conn_count + 1
    /\ conn_list_mutex' = NoOwner
    /\ cr_pc' = "idle"
    /\ cr_conn' = NULL
    /\ UNCHANGED <<advars, pktvars, accvars, conn_list, conn_list_enum_cv, mem, on_list, enum_count,
                   t_pc, rm_blocked, en_pc, en_cur, en_rv, en_h>>

conn_insert_flag ==
    /\ cr_pc = "ins_linked"
    /\ on_list' = [on_list EXCEPT ![cr_conn] = TRUE]
    /\ conn_count' = conn_count + 1
    /\ conn_list_mutex' = NoOwner
    /\ cr_pc' = "idle"
    /\ cr_conn' = NULL
    /\ UNCHANGED <<advars, pktvars, accvars, conn_list, conn_list_enum_cv, mem, enum_count,
                   t_pc, rm_blocked, en_pc, en_cur, en_rv, en_h>>

\* ------------------------------------------------------- conn_thread
\* adaptor_event_loop() returns in the worker, conn_destroy() calls
\* conn_remove(), which reads conn->on_list without the list lock.
conn_thread(c) ==
    /\ t_pc[c] = "loop"
    /\ t_pc' = [t_pc EXCEPT ![c] = IF on_list[c] THEN "rm_lock"
                                   ELSE "teardown"]
    /\ UNCHANGED <<advars, pktvars, accvars, conn_list, conn_count, conn_list_mutex, conn_list_enum_cv,
                   mem, on_list, enum_count, cr_pc, cr_conn, rm_blocked,
                   en_pc, en_cur, en_rv, en_h>>

\* ------------------------------------------------------- conn_remove
\* while (conn->enum_count != 0)
conn_remove_mustwait_never(c) == FALSE

conn_remove_mustwait(c) == enum_count[c] # 0

\* pthread_mutex_lock() (or the re-acquisition inside pthread_cond_wait),
\* the loop test is true: pthread_cond_wait() releases the mutex and sleeps
conn_remove_wait(c) ==
    /\ t_pc[c] \in {"rm_lock", "rm_woken"}
    /\ conn_list_mutex = NoOwner
    /\ conn_remove_mustwait(c)
    /\ conn_list_enum_cv' = conn_list_enum_cv \cup {c}
    /\ t_pc' = [t_pc EXCEPT ![c] = "rm_wait"]
    /\ rm_blocked' = [rm_blocked EXCEPT ![c] = TRUE]
    /\ UNCHANGED <<advars, pktvars, accvars, conn_list, conn_count, conn_list_mutex, mem, on_list,
                   enum_count, cr_pc, cr_conn, en_pc, en_cur, en_rv, en_h>>

\* pthread_cond_wait() may return without a broadcast
cond_spurious_wakeup(c) ==
    /\ t_pc[c] = "rm_wait"
    /\ conn_list_enum_cv' = conn_list_enum_cv \ {c}
    /\ t_pc' = [t_pc EXCEPT ![c] = "rm_woken"]
    /\ UNCHANGED <<advars, pktvars, accvars, conn_list, conn_count, conn_list_mutex, mem, on_list,
                   enum_count, cr_pc, cr_conn, rm_blocked,
                   en_pc, en_cur, en_rv, en_h>>

\* pthread_mutex_lock() (or the re-acquisition inside pthread_cond_wait),
\* the loop test is false: TAILQ_REMOVE(&conn_list, conn, link)
conn_remove_unlink(c) ==
    /\ t_pc[c] \in {"rm_lock", "rm_woken"}
    /\ conn_list_mutex = NoOwner
    /\ ~conn_remove_mustwait(c)
    /\ conn_list_mutex' = Destroyer(c)
    /\ conn_list' = TAILQ_REMOVE(c)
    /\ t_pc' = [t_pc EXCEPT ![c] = "rm_unlinked"]
    /\ UNCHANGED <<advars, pktvars, accvars, conn_count, conn_list_enum_cv, mem,
                   on_list, enum_count, cr_pc, cr_conn, rm_blocked,
                   en_pc, en_cur, en_rv, en_h>>

\* conn->on_list = false; conn_count--; pthread_mutex_unlock()
conn_remove_flag(c) ==
    /\ t_pc[c] = "rm_unlinked"
    /\ on_list' = [on_list EXCEPT ![c] = FALSE]
    /\ conn_count' = conn_count - 1
    /\ conn_list_mutex' = NoOwner
    /\ t_pc' = [t_pc EXCEPT ![c] = "teardown"]
    /\ UNCHANGED <<advars, pktvars, accvars, conn_list, conn_list_enum_cv, mem, enum_count,
                   cr_pc, cr_conn, rm_blocked, en_pc, en_cur, en_rv, en_h>>

\* ------------------------------------------------------ conn_destroy
\* the rest of conn_destroy() after conn_remove(): release the image,
\* conn_reboot(), destroy the mutex, conn_io_fini(), free(conn).
conn_destroy(c) ==
    /\ t_pc[c] = "teardown"
    /\ mem' = [mem EXCEPT ![c] = "freed"]
    /\ t_pc' = [t_pc EXCEPT ![c] = "done"]
    /\ cr_pc' = IF cr_pc = "bad" /\ cr_conn = c THEN "idle" ELSE cr_pc
    /\ cr_conn' = IF cr_pc = "bad" /\ cr_conn = c THEN NULL ELSE cr_conn
    /\ UNCHANGED <<advars, pktvars, accvars, conn_list, conn_count, conn_list_mutex, conn_list_enum_cv,
                   on_list, enum_count, rm_blocked,
                   en_pc, en_cur, en_rv, en_h>>

\* ---------------------------------------------------- conn_enumerate
\* pthread_cond_broadcast(&conn_list_enum_cv): every waiter is made
\* runnable and has to re-acquire the mutex.
cond_broadcast_none == t_pc

cond_broadcast ==
    [c \in Conns |-> IF c \in conn_list_enum_cv THEN "rm_woken" ELSE t_pc[c]]

\* history bookkeeping of one callback invocation on connection c
EnumVisit(h, c) ==
    [h EXCEPT !.missed = @ \ {c},
              !.hit = @ \/ c \in h.missed,
              !.late = @ \/ h.sawfalse,
              !.held = c,
              !.bcast = FALSE]

\* pthread_mutex_lock(); conn = TAILQ_FIRST(&conn_list); an empty list
\* ends the loop at once (unlock, return rv), otherwise
\* conn->enum_count++; assert; pthread_mutex_unlock() and func is called
conn_enumerate_begin(e) ==
    /\ en_pc[e] = "idle"
    /\ conn_list_mutex = NoOwner
    /\ en_rv' = [en_rv EXCEPT ![e] = TRUE]
    /\ en_cur' = [en_cur EXCEPT ![e] = TAILQ_FIRST]
    /\ LET h == [EnumHistInit EXCEPT !.missed = Range(conn_list)]
       IN  IF TAILQ_FIRST = NULL
           THEN /\ en_pc' = [en_pc EXCEPT ![e] = "done"]
                /\ en_h' = [en_h EXCEPT ![e] = h]
                /\ UNCHANGED enum_count
           ELSE /\ en_pc' = [en_pc EXCEPT ![e] = "callback"]
                /\ en_h' = [en_h EXCEPT ![e] = EnumVisit(h, TAILQ_FIRST)]
                /\ enum_count' = [enum_count EXCEPT ![TAILQ_FIRST] = @ + 1]
    /\ UNCHANGED <<advars, pktvars, accvars, conn_list, conn_count, conn_list_mutex, conn_list_enum_cv,
                   mem, on_list, cr_pc, cr_conn, t_pc, rm_blocked>>

\* (*func)(conn, ctx) returns r; if (! r) rv = false
conn_enumerate_callback(e, r) ==
    /\ en_pc[e] = "callback"
    /\ en_rv' = [en_rv EXCEPT ![e] = IF r THEN @ ELSE FALSE]
    /\ en_h' = [en_h EXCEPT ![e] = [@ EXCEPT !.sawfalse = @ \/ ~r]]
    /\ en_pc' = [en_pc EXCEPT ![e] = "relock"]
    /\ UNCHANGED <<advars, pktvars, accvars, conn_list, conn_count, conn_list_mutex, conn_list_enum_cv,
                   mem, on_list, enum_count, cr_pc, cr_conn, t_pc,
                   rm_blocked, en_cur>>

\* if (rv == false) break; otherwise conn = TAILQ_NEXT(conn, link):
\* the connection the loop goes on with, NULL when the loop ends
conn_enumerate_advance_nobreak(e) == TAILQ_NEXT(en_cur[e])

conn_enumerate_advance_skip(e) ==
    IF en_rv[e] = FALSE THEN NULL ELSE TAILQ_NEXT(TAILQ_NEXT(en_cur[e]))

conn_enumerate_advance(e) ==
    IF en_rv[e] = FALSE THEN NULL ELSE TAILQ_NEXT(en_cur[e])

\* conn->enum_count-- of the loop body
conn_enumerate_drop_keep(n) == n

conn_enumerate_drop(n) == n - 1

\* pthread_mutex_lock(); assert; conn->enum_count--; broadcast; the break
\* test and the TAILQ_FOREACH step; then either the next iteration's
\* conn->enum_count++ and unlock, or the final unlock and return rv
conn_enumerate_release(e) ==
    /\ en_pc[e] = "relock"
    /\ conn_list_mutex = NoOwner
    /\ t_pc' = cond_broadcast
    /\ conn_list_enum_cv' = {c \in conn_list_enum_cv : t_pc'[c] = "rm_wait"}
    /\ LET nxt == conn_enumerate_advance(e)
           cnt == [enum_count EXCEPT
                      ![en_cur[e]] = conn_enumerate_drop(@)]
           h   == [en_h[e] EXCEPT
                      !.held = NULL,
                      !.bcast = (\A c \in conn_list_enum_cv :
                                     t_pc'[c] = "rm_woken")]
       IN  IF nxt = NULL
           THEN /\ en_pc' = [en_pc EXCEPT ![e] = "done"]
                /\ en_h' = [en_h EXCEPT ![e] = h]
                /\ enum_count' = cnt
                /\ en_cur' = [en_cur EXCEPT ![e] = NULL]
           ELSE /\ en_pc' = [en_pc EXCEPT ![e] = "callback"]
                /\ en_h' = [en_h EXCEPT ![e] = EnumVisit(h, nxt)]
                /\ enum_count' = [cnt EXCEPT ![nxt] = @ + 1]
                /\ en_cur' = [en_cur EXCEPT ![e] = nxt]
    /\ UNCHANGED <<advars, pktvars, accvars, conn_list, conn_count, conn_list_mutex, mem, on_list,
                   cr_pc, cr_conn, rm_blocked, en_rv>>

Init == InitRegistry /\ InitAdaptor /\ InitCodecIdle /\ InitAccessor

Next ==
    \/ \E c \in Conns : conn_create_common(c)
    \/ \E c \in Conns : conn_create_common_bad(c)
    \/ conn_insert_link
    \/ conn_insert_flag
    \/ \E c \in Conns : conn_thread(c)
    \/ \E c \in Conns : conn_remove_wait(c)
    \/ \E c \in Conns : cond_spurious_wakeup(c)
    \/ \E c \in Conns : conn_remove_unlink(c)
    \/ \E c \in Conns : conn_remove_flag(c)
    \/ \E c \in Conns : conn_destroy(c)
    \/ \E e \in Enums : conn_enumerate_begin(e)
    \/ \E e \in Enums, r \in BOOLEAN : conn_enumerate_callback(e, r)
    \/ \E e \in Enums : conn_enumerate_release(e)

Spec == Init /\ [][Next]_vars

\* ------------------------------------------------------------ claims

\* C1: a connection is unlinked from the registry only in a state where
\* its enum_count is 0; conn_remove stays blocked while a borrow is held.
C1_UnlinkOnlyWhenNoBorrow ==
    [][\A c \in Conns :
         (InList(c) /\ c \notin Range(conn_list')) => enum_count[c] = 0]_vars

\* a remover that had to block behind an enumerator has unlinked
C1_Witness ==
    \E c \in Conns : rm_blocked[c] /\ t_pc[c] = "rm_unlinked" /\ ~InList(c)

\* C2: no connection handed to an enumeration callback is freed by
\* conn_destroy before that invocation of the callback returns.
C2_NoFreedConnInCallback ==
    \A e \in Enums : en_pc[e] = "callback" => mem[en_cur[e]] = "live"

\* C3 as stated: a call whose callback always returns true visits every
\* connection that was in the registry when it first took the list lock.
C3_VisitsWholeSnapshot ==
    \A e \in Enums :
        (en_pc[e] = "done" /\ ~en_h[e].sawfalse)
            => en_h[e].missed = {}

\* C3 amended: it visits every connection that was in the registry when
\* it first took the list lock and is still in the registry when it returns.
C3_VisitsSurvivingSnapshot ==
    \A e \in Enums :
        (en_pc[e] = "done" /\ ~en_h[e].sawfalse)
            => en_h[e].missed \cap Range(conn_list) = {}

\* an enumeration has returned true: a connection of its snapshot was
\* visited, and another one left the list under the call, unvisited
C3_Witness ==
    \E e \in Enums :
        /\ en_pc[e] = "done" /\ ~en_h[e].sawfalse
        /\ en_h[e].hit
        /\ en_h[e].missed # {}

\* C4: observed with the list lock free, a connection is linked in the
\* registry list if and only if its on_list flag is true.
C4_OnListIffLinked ==
    conn_list_mutex = NoOwner => \A c \in Conns : InList(c) <=> on_list[c]

\* lock free, one connection linked and flagged, another one unlinked
\* again by conn_remove and not flagged
C4_Witness ==
    /\ conn_list_mutex = NoOwner
    /\ \E c \in Conns : InList(c) /\ on_list[c]
    /\ \E c \in Conns : t_pc[c] = "teardown" /\ rm_blocked[c]
                        /\ ~InList(c) /\ ~on_list[c]

\* C5: conn_enumerate returns false iff some callback returned false; no
\* connection is visited after the first false; the borrow on the visited
\* connection is dropped and broadcast before returning.
C5_EnumerateResult ==
    \A e \in Enums :
        /\ ~en_h[e].late
        /\ en_pc[e] = "done" =>
              /\ en_rv[e] = ~en_h[e].sawfalse
              /\ en_h[e].held = NULL
              /\ en_h[e].bcast
              /\ \A c \in Conns :
                    enum_count[c] =
                        Cardinality({f \in Enums : en_h[f].held = c})

\* a call that returned false with a connection of its snapshot unvisited
C5_Witness ==
    \E e \in Enums :
        /\ en_pc[e] = "done" /\ en_rv[e] = FALSE
        /\ en_h[e].hit
        /\ en_h[e].missed \cap Range(conn_list) # {}
\* ------------------------------------------------------ conn_io
conn_check_state(st) == st = "OK"

\* outcome of a receive that fails: the endpoint state it leaves behind
RecvFailStates == IF io_state = "OK" THEN {"OK", "EOF", "ABORTED"}
                  ELSE {io_state}

\* a receive can deliver bytes only while the endpoint is healthy
RecvCanSucceed == io_state = "OK"

\* conn_send / conn_send_byte
conn_send(o, bytes) == o \o bytes
conn_send_byte(o, b) == Append(o, b)

\* what the wire carries for an escaped packet of n raw bytes
PktData(n) == 1000 + n

\* --------------------------------------------------- conn.c accessors
\* conn_reboot: fini of the sub-protocols that hold state; the value is
\* the connection's [l_last_image, nhacp_sessions, retronet] afterwards
conn_reboot ==
    [last_image |-> l_last_image, nhacp |-> FALSE, rn |-> FALSE]

\* conn_set_channel: the new [l_channel, retronet_enabled, l_selected_file]
conn_set_channel_keep(chan) ==
    [channel |-> chan, rn_enabled |-> ChannelRetroNetEnabled(chan),
     selected_file |-> l_selected_file]

conn_set_channel(chan) ==
    [channel |-> chan, rn_enabled |-> ChannelRetroNetEnabled(chan),
     selected_file |-> NULL]

\* ------------------------------------------------ image.c (external)
\* image_channel_select: look the code up and install the channel
image_channel_select(code) ==
    IF code \in Channels
    THEN conn_set_channel(code)
    ELSE [channel |-> l_channel, rn_enabled |-> retronet_enabled,
          selected_file |-> l_selected_file]

\* image_load: an image of the selected channel, NoImage when there is
\* no channel or the channel has no such image
image_load(image) ==
    IF l_channel = NULL THEN NoImage
    ELSE IF ImageLength(ChannelType(l_channel), image) = 0 THEN NoImage
    ELSE [number |-> image,
          length |-> ImageLength(ChannelType(l_channel), image),
          channel |-> l_channel]

\* image_unload: cache the image unless this was its last segment
image_unload(img, last) == IF last THEN NoImage ELSE img

\* ------------------------------------------------ adaptor_send_image
\* the decision of adaptor_send_pak for segment s of img:
\* auth: a packet of pktlen bytes goes to adaptor_send_packet,
\* otherwise UNAUTHORIZED is sent; last is the value returned
\* hdr: the header the server builds (NoHdr when it builds none);
\* payload: the image bytes [from, to) copied into the packet;
\* crc: the CRC is computed over the first crc.over bytes of the packet
\* and stored from byte crc.at on; asserted: the assert of
\* adaptor_send_packet passes; fatal: log_fatal was reached

\* adaptor_send_packet: assert(len <= NABU_MAXPACKETSIZE)
adaptor_send_packet_assert(len) == len <= NABU_MAXPACKETSIZE

adaptor_send_pak_nogap(img, segment, malloc_ok) ==
    LET off == segment * NABU_TOTALPAYLOADSIZE
        trunc == off + NABU_TOTALPAYLOADSIZE >= img.length
        len == IF trunc THEN img.length - off ELSE NABU_TOTALPAYLOADSIZE
    IN  IF off >= img.length
        THEN NoResult
        ELSE IF len < NABU_HEADERSIZE + NABU_FOOTERSIZE \/ ~malloc_ok
        THEN [NoResult EXCEPT !.last = trunc]
        ELSE [NoResult EXCEPT
                 !.auth = TRUE, !.last = trunc, !.pktlen = len,
                 !.payload = [from |-> off, to |-> off + len],
                 !.crc = [over |-> len - 2, at |-> len - 2],
                 !.asserted = adaptor_send_packet_assert(len)]

adaptor_send_pak(img, segment, malloc_ok) ==
    LET off == (segment * NABU_TOTALPAYLOADSIZE) + ((2 * segment) + 2)
        trunc == off + NABU_TOTALPAYLOADSIZE >= img.length
        len == IF trunc THEN img.length - off ELSE NABU_TOTALPAYLOADSIZE
    IN  IF off >= img.length
        THEN NoResult
        ELSE IF len < NABU_HEADERSIZE + NABU_FOOTERSIZE \/ ~malloc_ok
        THEN [NoResult EXCEPT !.last = trunc]
        ELSE [NoResult EXCEPT
                 !.auth = TRUE, !.last = trunc, !.pktlen = len,
                 !.payload = [from |-> off, to |-> off + len],
                 !.crc = [over |-> len - 2, at |-> len - 2],
                 !.asserted = adaptor_send_packet_assert(len)]

\* nabu_init_pkthdr: the header fields that depend on the request
nabu_init_pkthdr(image, segment, off, last) ==
    [image |-> image % 16777216, segment_lsb |-> segment % 256,
     last |-> last, segment |-> segment % 65536, offset |-> off % 65536]

\* what nabu_init_pkthdr and nabu_set_crc return: the bytes they wrote
nabu_init_pkthdr_ret == NABU_HEADERSIZE
nabu_set_crc_ret == NABU_FOOTERSIZE

\* adaptor_send_image once malloc(pktlen) has succeeded: header, payload
\* and CRC go into pktbuf while i counts the bytes written
adaptor_send_image_fill_nocrc(image, segment, off, len, pktlen, last) ==
    LET hdr_end == nabu_init_pkthdr_ret
        data_end == hdr_end + len
        i == data_end
    IN  IF i # pktlen
        THEN [NoResult EXCEPT !.fatal = TRUE]
        ELSE [NoResult EXCEPT
                 !.auth = TRUE, !.last = last, !.pktlen = pktlen,
                 !.hdr = nabu_init_pkthdr(image, segment, off, last),
                 !.payload = [from |-> off, to |-> off + len],
                 !.crc = [over |-> data_end, at |-> data_end],
                 !.asserted = adaptor_send_packet_assert(pktlen)]

adaptor_send_image_fill(image, segment, off, len, pktlen, last) ==
    LET hdr_end == nabu_init_pkthdr_ret
        data_end == hdr_end + len
        i == data_end + nabu_set_crc_ret
    IN  IF i # pktlen
        THEN [NoResult EXCEPT !.fatal = TRUE]
        ELSE [NoResult EXCEPT
                 !.auth = TRUE, !.last = last, !.pktlen = pktlen,
                 !.hdr = nabu_init_pkthdr(image, segment, off, last),
                 !.payload = [from |-> off, to |-> off + len],
                 !.crc = [over |-> data_end, at |-> data_end],
                 !.asserted = adaptor_send_packet_assert(pktlen)]

adaptor_send_image_past(img, segment, malloc_ok) ==
    LET off == segment * NABU_MAXPAYLOADSIZE
        trunc == off + NABU_MAXPAYLOADSIZE >= img.length
        len == IF trunc THEN img.length - off ELSE NABU_MAXPAYLOADSIZE
    IN  IF img.channel # NULL
           /\ ChannelType(img.channel) = "IMAGE_CHANNEL_PAK"
        THEN adaptor_send_pak(img, segment, malloc_ok)
        ELSE IF off > img.length
        THEN NoResult
        ELSE IF ~malloc_ok
        THEN [NoResult EXCEPT !.last = trunc]
        ELSE adaptor_send_image_fill(
                 img.number, segment, off, len,
                 len + NABU_HEADERSIZE + NABU_FOOTERSIZE, trunc)

adaptor_send_image_gt(img, segment, malloc_ok) ==
    LET off == segment * NABU_MAXPAYLOADSIZE
        trunc == off + NABU_MAXPAYLOADSIZE > img.length
        len == IF trunc THEN img.length - off ELSE NABU_MAXPAYLOADSIZE
    IN  IF img.channel # NULL
           /\ ChannelType(img.channel) = "IMAGE_CHANNEL_PAK"
        THEN adaptor_send_pak(img, segment, malloc_ok)
        ELSE IF off >= img.length
        THEN NoResult
        ELSE IF ~malloc_ok
        THEN [NoResult EXCEPT !.last = trunc]
        ELSE adaptor_send_image_fill(
                 img.number, segment, off, len,
                 len + NABU_HEADERSIZE + NABU_FOOTERSIZE, trunc)

adaptor_send_image(img, segment, malloc_ok) ==
    LET off == segment * NABU_MAXPAYLOADSIZE
        trunc == off + NABU_MAXPAYLOADSIZE >= img.length
        len == IF trunc THEN img.length - off ELSE NABU_MAXPAYLOADSIZE
    IN  IF img.channel # NULL
           /\ ChannelType(img.channel) = "IMAGE_CHANNEL_PAK"
        THEN adaptor_send_pak(img, segment, malloc_ok)
        ELSE IF off >= img.length
        THEN NoResult
        ELSE IF ~malloc_ok
        THEN [NoResult EXCEPT !.last = trunc]
        ELSE adaptor_send_image_fill(
                 img.number, segment, off, len,
                 len + NABU_HEADERSIZE + NABU_FOOTERSIZE, trunc)

\* the image adaptor_send_time wraps the time record in
TimeImage == [number |-> NABU_IMAGE_TIME, length |-> NABU_TIMESIZE,
              channel |-> NULL]

\* ------------------------------------------------ the handler table
HANDLER_INDEX(v) == (v - NABU_MSG_CLASSIC_FIRST) % 256

adaptor_msg_types ==
    <<"reset", "mystery", "start_up", "get_status", "packet_request",
      "change_channel">>
adaptor_msg_type_count == Len(adaptor_msg_types)

\* the handlers adaptor_msg_classic can find for msg; "none" when it
\* returns false.  adaptor_msg_types[adaptor_msg_type_count] passes the
\* bound check and is read past the end of the table: the slot may read
\* as NULL or as a garbage pointer ("wild") that is then called.
\* the indices at which adaptor_msg_classic reads adaptor_msg_types for
\* msg: the bound check comes first and || does not evaluate its right
\* operand when the left one is true
adaptor_msg_classic_reads(m) ==
    IF ~NABU_MSG_IS_CLASSIC(m) THEN {}
    ELSE IF HANDLER_INDEX(m) > adaptor_msg_type_count THEN {}
    ELSE {HANDLER_INDEX(m)}

adaptor_msg_classic(m) ==
    IF ~NABU_MSG_IS_CLASSIC(m) THEN {"none"}
    ELSE IF HANDLER_INDEX(m) > adaptor_msg_type_count THEN {"none"}
    ELSE IF HANDLER_INDEX(m) = adaptor_msg_type_count THEN {"none", "wild"}
    ELSE {adaptor_msg_types[HANDLER_INDEX(m) + 1]}

\* ------------------------------------------------ adaptor_event_loop
\* a request has been dealt with: back to the top of the for (;;) loop
Continue(by) ==
    /\ a_pc' = "top"
    /\ a_handled' = by
    /\ a_ack' = NoAck

\* top of the loop: conn_stop_watchdog(), then block in conn_recv_byte()
adaptor_event_loop_top_armed ==
    /\ a_pc = "top"
    /\ a_pc' = "wait_opcode"
    /\ UNCHANGED <<io_state, watchdog, msg, out, nrecv, offered, a_handled,
                   prev_declined, a_req, connvars, a_ack, regvars, pktvars, accvars>>

adaptor_event_loop_top ==
    /\ a_pc = "top"
    /\ watchdog' = 0
    /\ a_pc' = "wait_opcode"
    /\ UNCHANGED <<io_state, msg, out, nrecv, offered, a_handled,
                   prev_declined, a_req, connvars, a_ack, regvars, pktvars, accvars>>

\* conn_recv_byte() delivers the opcode byte b; conn_start_watchdog(10)
adaptor_event_loop_recv(b) ==
    /\ a_pc = "wait_opcode"
    /\ RecvCanSucceed
    /\ watchdog' = 10
    /\ msg' = b
    /\ out' = <<>>
    /\ nrecv' = 0
    /\ offered' = {}
    /\ a_handled' = "pending"
    /\ prev_declined' = (a_handled = "none")
    /\ a_req' = NoReq
    /\ a_pc' = "dispatch"
    /\ UNCHANGED <<io_state, connvars, a_ack, regvars, pktvars, accvars>>

\* where the loop goes when the opcode receive failed
adaptor_event_loop_failed_nocheck(st) == "returned"

adaptor_event_loop_failed(st) ==
    IF ~conn_check_state(st) THEN "returned" ELSE "top"

\* conn_recv_byte() fails, leaving the endpoint in state st
adaptor_event_loop_recv_fail(st) ==
    /\ a_pc = "wait_opcode"
    /\ st \in RecvFailStates
    /\ io_state' = st
    /\ a_pc' = adaptor_event_loop_failed(st)
    /\ UNCHANGED <<watchdog, msg, out, nrecv, offered, a_handled,
                   prev_declined, a_req, connvars, a_ack, regvars, pktvars, accvars>>

\* ---------------------------------------------------- the handlers
Dispatch(h) == a_pc = "dispatch" /\ h \in adaptor_msg_classic(msg)

\* adaptor_msg_reset
adaptor_msg_reset ==
    /\ Dispatch("reset")
    /\ l_last_image' = conn_reboot.last_image
    /\ nhacp_sessions' = conn_reboot.nhacp
    /\ retronet' = conn_reboot.rn
    /\ out' = conn_send_byte(conn_send(out, NABU_MSGSEQ_ACK),
                             NABU_STATE_CONFIRMED)
    /\ Continue("classic")
    /\ UNCHANGED <<io_state, watchdog, msg, nrecv, offered, prev_declined, a_req,
                   l_channel, l_selected_file, retronet_enabled, regvars, pktvars, accvars>>

\* adaptor_msg_start_up
adaptor_msg_start_up ==
    /\ Dispatch("start_up")
    /\ out' = conn_send_byte(conn_send(out, NABU_MSGSEQ_ACK),
                             NABU_STATE_CONFIRMED)
    /\ Continue("classic")
    /\ UNCHANGED <<io_state, watchdog, msg, nrecv, offered, prev_declined, a_req,
                   connvars, regvars, pktvars, accvars>>

\* the handlers that send ACK and then wait for the request body
AckAndWait(h, pc) ==
    /\ Dispatch(h)
    /\ out' = conn_send(out, NABU_MSGSEQ_ACK)
    /\ a_pc' = pc
    /\ UNCHANGED <<io_state, watchdog, msg, nrecv, offered, a_handled,
                   prev_declined, a_req, connvars, a_ack, regvars, pktvars, accvars>>

adaptor_msg_mystery == AckAndWait("mystery", "mystery_recv")
adaptor_msg_get_status == AckAndWait("get_status", "status_recv")
adaptor_msg_packet_request == AckAndWait("packet_request", "pr_recv")
adaptor_msg_change_channel == AckAndWait("change_channel", "cc_recv")

\* adaptor_msg_mystery: the two bytes arrive or not, CONFIRMED either way
adaptor_msg_mystery_recv(ok, st) ==
    /\ a_pc = "mystery_recv"
    /\ IF ok THEN RecvCanSucceed /\ st = io_state ELSE st \in RecvFailStates
    /\ io_state' = st
    /\ nrecv' = IF ok THEN nrecv + 2 ELSE nrecv
    /\ out' = conn_send_byte(out, NABU_STATE_CONFIRMED)
    /\ Continue("classic")
    /\ UNCHANGED <<watchdog, msg, offered, prev_declined, a_req, connvars, regvars, pktvars, accvars>>

\* adaptor_msg_channel_status / adaptor_msg_transmit_status
adaptor_msg_channel_status_yes(o) ==
    conn_send(conn_send_byte(o, NABU_SIGNAL_STATUS_YES),
              NABU_MSGSEQ_FINISHED)

adaptor_msg_channel_status(o) ==
    IF l_channel # NULL
    THEN conn_send(conn_send_byte(o, NABU_SIGNAL_STATUS_YES),
                   NABU_MSGSEQ_FINISHED)
    ELSE conn_send(conn_send_byte(o, NABU_SIGNAL_STATUS_NO),
                   NABU_MSGSEQ_FINISHED)

adaptor_msg_transmit_status(o) ==
    conn_send(conn_send_byte(o, NABU_SIGNAL_STATUS_YES),
              NABU_MSGSEQ_FINISHED)

\* adaptor_msg_get_status: the status type byte b arrives
adaptor_msg_get_status_recv(b) ==
    /\ a_pc = "status_recv"
    /\ RecvCanSucceed
    /\ nrecv' = nrecv + 1
    /\ out' = CASE b = NABU_STATUS_SIGNAL -> adaptor_msg_channel_status(out)
                [] b = NABU_STATUS_TRANSMIT ->
                       adaptor_msg_transmit_status(out)
                [] OTHER -> out
    /\ a_req' = [a_req EXCEPT !.status = b]
    /\ Continue("classic")
    /\ UNCHANGED <<io_state, watchdog, msg, offered, prev_declined,
                   connvars, regvars, pktvars, accvars>>

\* adaptor_msg_get_status: the status type never arrives
adaptor_msg_get_status_fail(st) ==
    /\ a_pc = "status_recv"
    /\ st \in RecvFailStates
    /\ io_state' = st
    /\ Continue("classic")
    /\ UNCHANGED <<watchdog, msg, out, nrecv, offered, prev_declined, a_req,
                   connvars, regvars, pktvars, accvars>>

\* adaptor_msg_packet_request / adaptor_msg_change_channel: the body
\* never arrives, conn_set_state(conn, CONN_STATE_ABORTED)
adaptor_msg_body_fail_noabort ==
    /\ a_pc \in {"pr_recv", "cc_recv"}
    /\ Continue("classic")
    /\ UNCHANGED <<io_state, watchdog, msg, out, nrecv, offered,
                   prev_declined, a_req, connvars, regvars, pktvars, accvars>>

adaptor_msg_body_fail ==
    /\ a_pc \in {"pr_recv", "cc_recv"}
    /\ io_state' = "ABORTED"
    /\ Continue("classic")
    /\ UNCHANGED <<watchdog, msg, out, nrecv, offered, prev_declined, a_req,
                   connvars, regvars, pktvars, accvars>>

\* adaptor_msg_packet_request after its 4 bytes: segment, image
\* the reply that is started: [auth, last, pktlen, unload, img]
PacketRequestPlan_loadany(segment, image, malloc_ok) ==
    IF image = NABU_IMAGE_TIME
    THEN IF segment = 0
         THEN adaptor_send_image(TimeImage, 0, malloc_ok)
                 @@ [unload |-> FALSE, img |-> NoImage]
         ELSE NoResult @@ [unload |-> FALSE, img |-> NoImage]
    ELSE [NoResult EXCEPT !.auth = TRUE, !.last = TRUE,
                          !.pktlen = NABU_HEADERSIZE + NABU_FOOTERSIZE]
            @@ [unload |-> TRUE, img |-> image_load(image)]

PacketRequestPlan(segment, image, malloc_ok) ==
    IF image = NABU_IMAGE_TIME
    THEN IF segment = 0
         THEN adaptor_send_image(TimeImage, 0, malloc_ok)
                 @@ [unload |-> FALSE, img |-> NoImage]
         ELSE NoResult @@ [unload |-> FALSE, img |-> NoImage]
    ELSE IF image_load(image) = NoImage
    THEN NoResult @@ [unload |-> FALSE, img |-> NoImage]
    ELSE adaptor_send_image(image_load(image), segment, malloc_ok)
            @@ [unload |-> TRUE, img |-> image_load(image)]

\* what adaptor_msg_packet_request gets from image_load() for the image
\* id of the request: "na" when it does not call it
PacketRequestLoad_time(image) ==
    IF image_load(image) = NoImage THEN "null" ELSE "image"

PacketRequestLoad(image) ==
    IF image = NABU_IMAGE_TIME THEN "na"
    ELSE IF image_load(image) = NoImage THEN "null" ELSE "image"

adaptor_msg_packet_request_recv(segment, image, malloc_ok) ==
    /\ a_pc = "pr_recv"
    /\ RecvCanSucceed
    /\ nrecv' = nrecv + 4
    /\ LET plan == PacketRequestPlan(segment, image, malloc_ok)
       IN  /\ out' = conn_send_byte(
                        conn_send_byte(out, NABU_STATE_CONFIRMED),
                        IF plan.auth THEN NABU_SERVICE_AUTHORIZED
                        ELSE NABU_SERVICE_UNAUTHORIZED)
           /\ a_ack' = [for |-> IF plan.auth THEN "pkt" ELSE "unauth",
                        pktlen |-> plan.pktlen, unload |-> plan.unload,
                        img |-> plan.img, last |-> plan.last]
    /\ a_req' = [a_req EXCEPT
                    !.segment = segment, !.image = image,
                    !.loaded = PacketRequestLoad(image)]
    /\ a_pc' = "ack1"
    /\ UNCHANGED <<io_state, watchdog, msg, offered, a_handled,
                   prev_declined, connvars, regvars, pktvars, accvars>>

\* adaptor_send_packet / adaptor_send_unauthorized once the ACK wait is
\* over, then the caller's image_unload()
AckDone_nowait(ok, rx) ==
    /\ out' = IF a_ack.for = "pkt"
              THEN conn_send(conn_send(out, <<PktData(a_ack.pktlen)>>),
                             NABU_MSGSEQ_FINISHED)
              ELSE out
    /\ l_last_image' = IF a_ack.unload
                       THEN image_unload(a_ack.img, a_ack.last)
                       ELSE l_last_image
    /\ a_req' = [a_req EXCEPT !.acked = IF ok THEN "ok" ELSE "fail",
                              !.rx = @ \o rx]
    /\ Continue("classic")

AckDone(ok, rx) ==
    /\ out' = IF ok /\ a_ack.for = "pkt"
              THEN conn_send(conn_send(out, <<PktData(a_ack.pktlen)>>),
                             NABU_MSGSEQ_FINISHED)
              ELSE out
    /\ l_last_image' = IF a_ack.unload
                       THEN image_unload(a_ack.img, a_ack.last)
                       ELSE l_last_image
    /\ a_req' = [a_req EXCEPT !.acked = IF ok THEN "ok" ELSE "fail",
                              !.rx = @ \o rx]
    /\ Continue("classic")

\* adaptor_expect_byte inside adaptor_expect_sequence(ACK): byte b arrives
adaptor_expect_byte(b) ==
    /\ a_pc \in {"ack1", "ack2"}
    /\ RecvCanSucceed
    /\ nrecv' = nrecv + 1
    /\ IF a_pc = "ack1" /\ b = NABU_MSGSEQ_ACK[1]
       THEN /\ a_pc' = "ack2"
            /\ a_req' = [a_req EXCEPT !.rx = Append(@, b)]
            /\ UNCHANGED <<out, l_last_image, a_handled, a_ack>>
       ELSE AckDone(a_pc = "ack2" /\ b = NABU_MSGSEQ_ACK[2], <<b>>)
    /\ UNCHANGED <<io_state, watchdog, msg, offered, prev_declined,
                   l_channel, l_selected_file, retronet_enabled,
                   nhacp_sessions, retronet, regvars, pktvars, accvars>>

\* adaptor_expect_byte: receive error
adaptor_expect_byte_fail(st) ==
    /\ a_pc \in {"ack1", "ack2"}
    /\ st \in RecvFailStates
    /\ io_state' = st
    /\ AckDone(FALSE, <<>>)
    /\ UNCHANGED <<watchdog, msg, nrecv, offered, prev_declined,
                   l_channel, l_selected_file, retronet_enabled,
                   nhacp_sessions, retronet, regvars, pktvars, accvars>>

\* adaptor_msg_change_channel after its 2 bytes: the channel code
adaptor_msg_change_channel_recv(code) ==
    /\ a_pc = "cc_recv"
    /\ RecvCanSucceed
    /\ nrecv' = nrecv + 2
    /\ l_channel' = image_channel_select(code).channel
    /\ retronet_enabled' = image_channel_select(code).rn_enabled
    /\ l_selected_file' = image_channel_select(code).selected_file
    /\ out' = conn_send_byte(out, NABU_STATE_CONFIRMED)
    /\ Continue("classic")
    /\ UNCHANGED <<io_state, watchdog, msg, offered, prev_declined, a_req,
                   l_last_image, nhacp_sessions, retronet, regvars, pktvars, accvars>>

\* the slot past the end of adaptor_msg_types read as a non-null pointer:
\* the call through it does not come back
adaptor_msg_classic_wild ==
    /\ Dispatch("wild")
    /\ a_pc' = "crashed"
    /\ a_handled' = "wild"
    /\ UNCHANGED <<io_state, watchdog, msg, out, nrecv, offered,
                   prev_declined, a_req, connvars, a_ack, regvars, pktvars, accvars>>

\* sub-protocol handlers (external): claim the opcodes that are theirs
retronet_request(m) == m \in RetroNetOps
nhacp_request(m) == m \in NhacpOps

\* adaptor_msg_classic() returned false: retronet_request() takes it
adaptor_event_loop_retronet ==
    /\ Dispatch("none")
    /\ retronet_request(msg)
    /\ offered' = {"retronet"}
    /\ retronet' = TRUE
    /\ nrecv' = nrecv + 1
    /\ out' = conn_send_byte(out, 255)
    /\ Continue("retronet")
    /\ UNCHANGED <<io_state, watchdog, msg, prev_declined, a_req, l_last_image,
                   l_channel, l_selected_file, retronet_enabled,
                   nhacp_sessions, regvars, pktvars, accvars>>

\* retronet_request() declined as well: nhacp_request() takes it
adaptor_event_loop_nhacp ==
    /\ Dispatch("none")
    /\ ~retronet_request(msg)
    /\ nhacp_request(msg)
    /\ offered' = {"retronet", "nhacp"}
    /\ nhacp_sessions' = TRUE
    /\ nrecv' = nrecv + 1
    /\ out' = conn_send_byte(out, 255)
    /\ Continue("nhacp")
    /\ UNCHANGED <<io_state, watchdog, msg, prev_declined, a_req, l_last_image,
                   l_channel, l_selected_file, retronet_enabled,
                   retronet, regvars, pktvars, accvars>>

\* nobody took it: log "Got unexpected message" and loop
adaptor_event_loop_unexpected ==
    /\ Dispatch("none")
    /\ ~retronet_request(msg)
    /\ ~nhacp_request(msg)
    /\ offered' = {"retronet", "nhacp"}
    /\ Continue("none")
    /\ UNCHANGED <<io_state, watchdog, msg, out, nrecv, prev_declined, a_req,
                   connvars, regvars, pktvars, accvars>>

NextAdaptor ==
    \/ adaptor_event_loop_top
    \/ \E b \in OpcodeBytes : adaptor_event_loop_recv(b)
    \/ \E st \in {"OK", "EOF", "ABORTED"} : adaptor_event_loop_recv_fail(st)
    \/ adaptor_msg_reset
    \/ adaptor_msg_start_up
    \/ adaptor_msg_mystery
    \/ adaptor_msg_get_status
    \/ adaptor_msg_packet_request
    \/ adaptor_msg_change_channel
    \/ \E ok \in BOOLEAN, st \in {"OK", "EOF", "ABORTED"} :
          adaptor_msg_mystery_recv(ok, st)
    \/ \E b \in StatusBytes : adaptor_msg_get_status_recv(b)
    \/ \E st \in {"OK", "EOF", "ABORTED"} : adaptor_msg_get_status_fail(st)
    \/ adaptor_msg_body_fail
    \/ \E s \in SegmentBytes, i \in ImageIds, m \in BOOLEAN :
          adaptor_msg_packet_request_recv(s, i, m)
    \/ \E b \in AckBytes : adaptor_expect_byte(b)
    \/ \E st \in {"OK", "EOF", "ABORTED"} : adaptor_expect_byte_fail(st)
    \/ \E c \in ChannelCodes : adaptor_msg_change_channel_recv(c)
    \/ adaptor_msg_classic_wild
    \/ adaptor_event_loop_retronet
    \/ adaptor_event_loop_nhacp
    \/ adaptor_event_loop_unexpected

SpecAdaptor == Init /\ [][NextAdaptor]_vars

\* C6: adaptor_event_loop returns only after the opcode receive failed
\* with the endpoint not healthy; a failed opcode receive on a healthy
\* endpoint sends nothing, dispatches nothing and goes back to waiting.
C6_LoopExit ==
    [][/\ (a_pc' = "returned" /\ a_pc # "returned")
             => (a_pc = "wait_opcode" /\ ~conn_check_state(io_state'))
       /\ (a_pc = "wait_opcode" /\ a_pc' # "dispatch"
             /\ conn_check_state(io_state'))
             => /\ a_pc' \in {"top", "wait_opcode"}
                /\ out' = out /\ offered' = offered
                /\ a_handled' = a_handled /\ connvars' = connvars]_vars

\* the loop has returned after serving at least one request
C6_Witness ==
    a_pc = "returned" /\ io_state # "OK" /\ a_handled = "classic"

\* C7: the watchdog is disarmed whenever the loop waits for an opcode
\* byte and armed to 10 s at every receive made while handling a request.
C7_Watchdog ==
    /\ a_pc = "wait_opcode" => watchdog = 0
    /\ a_pc \in {"dispatch", "mystery_recv", "status_recv", "pr_recv",
                 "cc_recv", "ack1", "ack2"} => watchdog = 10

\* idle again, watchdog disarmed, after a classic opcode nobody handled
C7_Witness ==
    /\ a_pc = "wait_opcode" /\ watchdog = 0
    /\ a_handled = "none" /\ NABU_MSG_IS_CLASSIC(msg)

\* C8: an opcode byte in the classic range is never passed to
\* retronet_request or nhacp_request.
C8_ClassicStaysClassic ==
    NABU_MSG_IS_CLASSIC(msg) => offered \cap {"retronet", "nhacp"} = {}

\* C9: an opcode without classic handler that both sub-protocols decline
\* sends nothing and consumes nothing, the loop stays in step, and a RESET
\* that follows is answered with exactly ACK, CONFIRMED.
Unclaimed(m) ==
    /\ ~NABU_MSG_IS_CLASSIC(m) \/ HANDLER_INDEX(m) >= adaptor_msg_type_count
    /\ ~retronet_request(m)
    /\ ~nhacp_request(m)

C9_UnknownOpcodeNoDesync ==
    /\ (a_handled \notin {"init", "pending"} /\ Unclaimed(msg))
          => /\ a_pc \in {"top", "wait_opcode", "returned"}
             /\ out = <<>>
             /\ nrecv = 0
    /\ (prev_declined /\ msg = NABU_MSG_RESET /\ a_handled # "pending")
          => /\ out = conn_send_byte(NABU_MSGSEQ_ACK, NABU_STATE_CONFIRMED)
             /\ nrecv = 0

\* C10: after a RESET has been handled the connection holds no cached
\* image.
C10_ResetDropsImage ==
    (msg = NABU_MSG_RESET /\ a_handled = "classic")
        => l_last_image = NoImage

\* C11: a PACKET_REQUEST whose image image_load() cannot deliver is
\* answered with exactly ACK, then (after its 4 body bytes) CONFIRMED,
\* then one SERVICE_UNAUTHORIZED; the server then waits for the client's
\* ACK, sends nothing more for the request and goes back to the loop.
C11_UnloadableImage ==
    /\ (msg = NABU_MSG_PACKET_REQUEST /\ a_pc = "pr_recv")
          => (out = NABU_MSGSEQ_ACK /\ nrecv = 0)
    /\ (msg = NABU_MSG_PACKET_REQUEST /\ a_req.loaded = "null")
          => /\ out = conn_send_byte(
                         conn_send_byte(conn_send(<<>>, NABU_MSGSEQ_ACK),
                                        NABU_STATE_CONFIRMED),
                         NABU_SERVICE_UNAUTHORIZED)
             /\ nrecv >= 4
             /\ a_pc \in {"ack1", "ack2", "top", "wait_opcode", "returned"}
             /\ a_pc \in {"ack1", "ack2"} <=> a_req.acked = "none"

\* a channel is selected, the requested image is not in it, the client
\* has acknowledged the refusal and the loop waits for the next opcode
C11_Witness ==
    /\ msg = NABU_MSG_PACKET_REQUEST /\ a_req.loaded = "null"
    /\ l_channel # NULL
    /\ a_req.acked = "ok" /\ a_pc = "wait_opcode"

\* C12: GET_STATUS sends ACK and reads one status type byte; SIGNAL is
\* answered with SIGNAL_STATUS_YES iff a channel is selected (else
\* SIGNAL_STATUS_NO) and FINISHED, TRANSMIT with SIGNAL_STATUS_YES and
\* FINISHED, any other type with nothing after the ACK.
C12_GetStatus ==
    (msg = NABU_MSG_GET_STATUS /\ a_handled = "classic")
        => /\ nrecv = (IF a_req.status = -1 THEN 0 ELSE 1)
           /\ out = NABU_MSGSEQ_ACK \o
                (CASE a_req.status = NABU_STATUS_SIGNAL ->
                        <<IF l_channel # NULL THEN NABU_SIGNAL_STATUS_YES
                          ELSE NABU_SIGNAL_STATUS_NO>>
                            \o NABU_MSGSEQ_FINISHED
                   [] a_req.status = NABU_STATUS_TRANSMIT ->
                        <<NABU_SIGNAL_STATUS_YES>> \o NABU_MSGSEQ_FINISHED
                   [] OTHER -> <<>>)

\* a signal status request answered with no channel selected
C12_Witness ==
    /\ msg = NABU_MSG_GET_STATUS /\ a_handled = "classic"
    /\ a_req.status = NABU_STATUS_SIGNAL /\ l_channel = NULL
    /\ out = <<16, 6, 16, 16, 225>>

\* C20: adaptor_send_packet sends SERVICE_AUTHORIZED first; the packet
\* bytes and FINISHED follow only once the client's 0x10 0x06 has been
\* received in full, and are never sent when that wait fails.
C20_PacketAfterAck ==
    (msg = NABU_MSG_PACKET_REQUEST /\ Len(out) >= 4
        /\ out[4] = NABU_SERVICE_AUTHORIZED)
        => /\ SubSeq(out, 1, 4) = <<16, 6, NABU_STATE_CONFIRMED,
                                     NABU_SERVICE_AUTHORIZED>>
           /\ Len(out) > 4 <=> a_req.rx = NABU_MSGSEQ_ACK
           /\ Len(out) > 4 <=> a_req.acked = "ok"
           /\ Len(out) > 4
                 => /\ Len(out) = 7
                    /\ out[5] >= PktData(0)
                    /\ SubSeq(out, 6, 7) = NABU_MSGSEQ_FINISHED

\* an authorized packet went out after the ACK
C20_Witness ==
    /\ msg = NABU_MSG_PACKET_REQUEST /\ Len(out) = 7
    /\ out[4] = NABU_SERVICE_AUTHORIZED
    /\ a_req.rx = NABU_MSGSEQ_ACK /\ a_req.acked = "ok"

\* =====================================================================
\* the frame codec applied to sampled inputs
\* =====================================================================

\* what one iteration of the loop of adaptor_escape_packet stores
adaptor_escape_byte_single(b) == <<b>>

adaptor_escape_byte(b) ==
    IF b = NABU_MSG_ESCAPE THEN <<NABU_MSG_ESCAPE, NABU_MSG_ESCAPE>>
    ELSE <<b>>

\* adaptor_escape_packet: conn->pktlen = 0
adaptor_escape_packet ==
    /\ p_pc = "escape"
    /\ pktbuf' = <<>>
    /\ p_i' = 0
    /\ p_pc' = "escaping"
    /\ UNCHANGED <<p_buf, p_img, p_res, regvars, advars, accvars>>

\* one iteration of for (i = 0; i < len; i++)
adaptor_escape_packet_loop ==
    /\ p_pc = "escaping"
    /\ p_i < Len(p_buf)
    /\ pktbuf' = pktbuf \o adaptor_escape_byte(p_buf[p_i + 1])
    /\ p_i' = p_i + 1
    /\ UNCHANGED <<p_pc, p_buf, p_img, p_res, regvars, advars, accvars>>

\* the loop is over
adaptor_escape_packet_return ==
    /\ p_pc = "escaping"
    /\ p_i >= Len(p_buf)
    /\ p_pc' = "escaped"
    /\ UNCHANGED <<p_buf, p_i, pktbuf, p_img, p_res, regvars, advars, accvars>>

\* adaptor_send_image(conn, image, segment, img)
adaptor_send_image_call ==
    /\ p_pc = "image"
    /\ p_res' = adaptor_send_image(p_img.img, p_img.segment,
                                   p_img.malloc_ok)
    /\ p_pc' = "sent"
    /\ UNCHANGED <<p_buf, p_i, pktbuf, p_img, regvars, advars, accvars>>

NextCodec ==
    \/ adaptor_escape_packet
    \/ adaptor_escape_packet_loop
    \/ adaptor_escape_packet_return
    \/ adaptor_send_image_call

\* the two functions are called on every sampled input, with the rest of
\* the program at rest
InitCalls == InitRegistry /\ InitAdaptor /\ InitAccessor /\ InitCodec

SpecCodec == InitCalls /\ [][NextCodec]_vars

\* decoding of an escaped stream: every doubled ESCAPE collapses to one
RECURSIVE Collapse(_)
Collapse(o) ==
    IF o = <<>> THEN <<>>
    ELSE IF Len(o) >= 2 /\ o[1] = NABU_MSG_ESCAPE /\ o[2] = NABU_MSG_ESCAPE
    THEN <<NABU_MSG_ESCAPE>> \o Collapse(SubSeq(o, 3, Len(o)))
    ELSE <<o[1]>> \o Collapse(Tail(o))

\* number of ESCAPE bytes among the first n bytes of b
EscapeCount(b, n) ==
    Cardinality({i \in 1..n : b[i] = NABU_MSG_ESCAPE})

\* C15: adaptor_escape_packet emits every ESCAPE byte of the buffer twice
\* and every other byte once, in order: the output is n plus the number
\* of ESCAPE bytes long, within [n, 2n], and collapsing the doubled
\* ESCAPEs gives the buffer back.
C15_EscapeDoublesEscapes ==
    p_pc = "escaped" =>
        LET n == Len(p_buf)
        IN  /\ Len(pktbuf) = n + EscapeCount(p_buf, n)
            /\ Len(pktbuf) >= n /\ Len(pktbuf) <= 2 * n
            /\ \A i \in 1..n :
                  LET at == i + EscapeCount(p_buf, i - 1)
                  IN  /\ pktbuf[at] = p_buf[i]
                      /\ p_buf[i] = NABU_MSG_ESCAPE
                            => pktbuf[at + 1] = NABU_MSG_ESCAPE
            /\ Collapse(pktbuf) = p_buf

\* a buffer with ESCAPE at both ends has been escaped
C15_Witness ==
    /\ p_pc = "escaped"
    /\ p_buf = <<NABU_MSG_ESCAPE, 6, NABU_MSG_ESCAPE>>
    /\ pktbuf = <<16, 16, 6, 16, 16>>

\* the image does not come from a PAK channel
NonPak(img) ==
    img.channel = NULL \/ ChannelType(img.channel) # "IMAGE_CHANNEL_PAK"

\* C16: for a non-PAK image of length L and a segment s that starts
\* inside it, adaptor_send_image returns true, and sets the last flag of
\* the header it builds, iff (s+1) * MAXPAYLOAD >= L; the payload is the
\* image bytes from s * MAXPAYLOAD up to min((s+1) * MAXPAYLOAD, L).
C16_LastSegmentFlag ==
    (/\ p_pc = "sent"
     /\ NonPak(p_img.img)
     /\ p_img.segment * NABU_MAXPAYLOADSIZE < p_img.img.length)
        => LET s == p_img.segment
               L == p_img.img.length
               final == (s + 1) * NABU_MAXPAYLOADSIZE >= L
           IN  /\ p_res.last <=> final
               /\ p_img.malloc_ok => p_res.auth
               /\ p_res.auth
                    => /\ p_res.hdr.last <=> final
                       /\ p_res.payload.from = s * NABU_MAXPAYLOADSIZE
                       /\ p_res.payload.to =
                             (IF final THEN L
                              ELSE (s + 1) * NABU_MAXPAYLOADSIZE)

\* the second, final segment of an image of exactly two payloads
C16_Witness ==
    /\ p_pc = "sent" /\ NonPak(p_img.img)
    /\ p_img.img.length = 2 * NABU_MAXPAYLOADSIZE /\ p_img.segment = 1
    /\ p_res.auth /\ p_res.last /\ p_res.hdr.last

\* C17: for a non-PAK image and every segment number 0..255 inside it,
\* the 16-bit offset field of the header equals s * 991.
C17_OffsetField ==
    (p_pc = "sent" /\ NonPak(p_img.img) /\ p_res.auth)
        => p_res.hdr.offset = p_img.segment * NABU_MAXPAYLOADSIZE

\* =====================================================================
\* one connection: creation, the accessors, destruction
\* =====================================================================

\* the variables of the event loop that are not fields of the connection
loopvars == <<a_pc, io_state, watchdog, msg, out, nrecv, offered, a_handled,
              prev_declined, a_req, a_ack>>

\* the fields thread t touches in this step, if it does so without
\* holding conn->mutex
Access(t, fields) == IF conn_mutex' = t THEN {} ELSE fields

\* a selection is being made: conn_set_channel, conn_set_selected_file or
\* the assignment in conn_create_common
WriterStart(h) == [h EXCEPT !.clean = NULL, !.got.disturbed = TRUE]

\* the locals of thread t once its call has returned: the creator keeps
\* args, whose fields it has yet to use
Returned(t) ==
    IF t = "creator"
    THEN [NoLocals EXCEPT !.chan = k_loc[t].chan, !.file = k_loc[t].file]
    ELSE NoLocals

\* the worker is between two requests and may make another one
WorkerCall(t) == t = "worker" /\ k_pc[t] = "idle" /\ k_ops < MaxOps

\* conn_create_common up to conn_io_init: ch, sf, fr are args->channel,
\* args->selected_file and whether args->file_root is set
conn_create_common_alloc(ch, sf, fr, io_ok) ==
    /\ k_pc["creator"] = "calloc"
    /\ k_loc' = [k_loc EXCEPT !["creator"].chan = ch,
                              !["creator"].file = sf]
    /\ k_res' = [k_res EXCEPT !.file_root = IF fr THEN "owned" ELSE "null",
                              !.endpoint = "open"]
    /\ k_pc' = [k_pc EXCEPT !["creator"] =
                    IF ~io_ok THEN "d_remove"
                    ELSE IF ch # 0 THEN "cc_channel" ELSE "cc_selfile"]
    /\ UNCHANGED <<conn_mutex, k_ops, k_h, connvars, loopvars, regvars,
                   pktvars>>

\* conn_set_channel up to the unlock, called by image_channel_select
conn_set_channel_lock(t, chan) ==
    /\ \/ t = "creator" /\ k_pc[t] = "cc_channel" /\ chan = k_loc[t].chan
       \/ WorkerCall(t)
    /\ conn_mutex = "free"
    /\ conn_mutex' = t
    /\ l_channel' = conn_set_channel(chan).channel
    /\ retronet_enabled' = conn_set_channel(chan).rn_enabled
    /\ l_selected_file' = conn_set_channel(chan).selected_file
    /\ k_loc' = [k_loc EXCEPT
                    ![t].old = l_selected_file,
                    ![t].ret = IF t = "creator" THEN "cc_selfile"
                               ELSE "idle"]
    /\ k_pc' = [k_pc EXCEPT ![t] = "set_channel_locked"]
    /\ k_ops' = IF t = "worker" THEN k_ops + 1 ELSE k_ops
    /\ k_h' = [WriterStart(k_h) EXCEPT
                  !.unlocked = @ \cup
                      Access(t, {"l_channel", "l_selected_file"})]
    /\ UNCHANGED <<k_res, l_last_image, nhacp_sessions, retronet, loopvars,
                   regvars, pktvars>>

\* conn_set_channel: the unlock and the free of the old selection
conn_set_channel_free(t) ==
    /\ k_pc[t] = "set_channel_locked"
    /\ conn_mutex' = "free"
    /\ k_res' = [k_res EXCEPT
                    !.sel_alloc = IF k_loc[t].old # NULL THEN @ - 1 ELSE @]
    /\ k_pc' = [k_pc EXCEPT ![t] = k_loc[t].ret]
    /\ k_loc' = [k_loc EXCEPT ![t] = Returned(t)]
    /\ k_h' = [k_h EXCEPT !.clean = l_channel]
    /\ UNCHANGED <<k_ops, connvars, loopvars, regvars, pktvars>>

\* conn_create_common: conn->l_selected_file = args->selected_file
conn_create_common_selected_file ==
    /\ k_pc["creator"] = "cc_selfile"
    /\ UNCHANGED conn_mutex
    /\ l_selected_file' = k_loc["creator"].file
    /\ k_res' = [k_res EXCEPT
                    !.sel_alloc = IF k_loc["creator"].file # NULL
                                  THEN @ + 1 ELSE @]
    /\ k_pc' = [k_pc EXCEPT !["creator"] = "cc_start"]
    /\ k_h' = [WriterStart(k_h) EXCEPT
                  !.unlocked = @ \cup Access("creator", {"l_selected_file"})]
    /\ UNCHANGED <<k_loc, k_ops, l_last_image, l_channel, retronet_enabled,
                   nhacp_sessions, retronet, loopvars, regvars, pktvars>>

\* conn_create_common: conn_io_start, then conn_insert or conn_destroy
conn_create_common_start(ok) ==
    /\ k_pc["creator"] = "cc_start"
    /\ k_pc' = IF ok
               THEN [t \in Threads |-> IF t = "creator" THEN "done"
                                       ELSE "idle"]
               ELSE [k_pc EXCEPT !["creator"] = "d_remove"]
    /\ k_res' = [k_res EXCEPT !.registered = ok]
    /\ UNCHANGED <<conn_mutex, k_loc, k_ops, k_h, connvars, loopvars,
                   regvars, pktvars>>

\* conn_set_selected_file up to the unlock; the connection now owns name
conn_set_selected_file_lock(t, name) ==
    /\ WorkerCall(t)
    /\ conn_mutex = "free"
    /\ conn_mutex' = t
    /\ l_selected_file' = name
    /\ k_loc' = [k_loc EXCEPT ![t].old = l_selected_file,
                              ![t].ret = "idle"]
    /\ k_res' = [k_res EXCEPT
                    !.sel_alloc = IF name # NULL THEN @ + 1 ELSE @]
    /\ k_pc' = [k_pc EXCEPT ![t] = "set_selected_file_locked"]
    /\ k_ops' = k_ops + 1
    /\ k_h' = [WriterStart(k_h) EXCEPT
                  !.unlocked = @ \cup Access(t, {"l_selected_file"})]
    /\ UNCHANGED <<l_last_image, l_channel, retronet_enabled,
                   nhacp_sessions, retronet, loopvars, regvars, pktvars>>

\* conn_set_selected_file: the unlock and the free of the old name
conn_set_selected_file_free(t) ==
    /\ k_pc[t] = "set_selected_file_locked"
    /\ conn_mutex' = "free"
    /\ k_res' = [k_res EXCEPT
                    !.sel_alloc = IF k_loc[t].old # NULL THEN @ - 1 ELSE @]
    /\ k_pc' = [k_pc EXCEPT ![t] = k_loc[t].ret]
    /\ k_loc' = [k_loc EXCEPT ![t] = Returned(t)]
    /\ UNCHANGED <<k_ops, k_h, connvars, loopvars, regvars, pktvars>>

\* conn_get_last_image up to the unlock
conn_get_last_image_lock(t) ==
    /\ WorkerCall(t)
    /\ conn_mutex = "free"
    /\ conn_mutex' = t
    /\ k_loc' = [k_loc EXCEPT ![t].oimg = l_last_image, ![t].ret = "idle"]
    /\ k_pc' = [k_pc EXCEPT ![t] = "accessor_locked"]
    /\ k_ops' = k_ops + 1
    /\ k_h' = [k_h EXCEPT
                  !.unlocked = @ \cup Access(t, {"l_last_image"})]
    /\ UNCHANGED <<k_res, connvars, loopvars, regvars, pktvars>>

\* conn_set_last_image up to the unlock: by the worker (image.c), and by
\* conn_destroy with NULL
conn_set_last_image_lock(t, img) ==
    /\ \/ WorkerCall(t)
       \/ t \in {"creator", "worker"} /\ k_pc[t] = "d_image"
             /\ img = NoImage
    /\ conn_mutex = "free"
    /\ conn_mutex' = t
    /\ l_last_image' = img
    /\ k_loc' = [k_loc EXCEPT
                    ![t].oimg = l_last_image,
                    ![t].ret = IF k_pc[t] = "d_image" THEN "d_reboot"
                               ELSE "idle"]
    /\ k_pc' = [k_pc EXCEPT ![t] = "accessor_locked"]
    /\ k_ops' = IF k_pc[t] = "idle" THEN k_ops + 1 ELSE k_ops
    /\ k_h' = [k_h EXCEPT
                  !.unlocked = @ \cup Access(t, {"l_last_image"})]
    /\ UNCHANGED <<k_res, l_channel, l_selected_file, retronet_enabled,
                   nhacp_sessions, retronet, loopvars, regvars, pktvars>>

\* the body of conn_set_last_image_if: what it returns and what the
\* connection holds afterwards
conn_set_last_image_if_always(match, img) ==
    [ret |-> l_last_image, last_image |-> img]

conn_set_last_image_if(match, img) ==
    IF l_last_image = match
    THEN [ret |-> l_last_image, last_image |-> img]
    ELSE [ret |-> NoImage, last_image |-> l_last_image]

\* conn_set_last_image_if up to the unlock
conn_set_last_image_if_lock(t, match, img) ==
    /\ WorkerCall(t)
    /\ conn_mutex = "free"
    /\ conn_mutex' = t
    /\ l_last_image' = conn_set_last_image_if(match, img).last_image
    /\ k_loc' = [k_loc EXCEPT
                    ![t].oimg = conn_set_last_image_if(match, img).ret,
                    ![t].ret = "idle"]
    /\ k_pc' = [k_pc EXCEPT ![t] = "accessor_locked"]
    /\ k_ops' = k_ops + 1
    /\ k_h' = [k_h EXCEPT
                  !.unlocked = @ \cup Access(t, {"l_last_image"}),
                  !.lif = [called |-> TRUE, prior |-> l_last_image,
                           match |-> match,
                           ret |-> conn_set_last_image_if(match, img).ret]]
    /\ UNCHANGED <<k_res, l_channel, l_selected_file, retronet_enabled,
                   nhacp_sessions, retronet, loopvars, regvars, pktvars>>

\* conn_get_channel up to the unlock, and the snapshot of l_channel a
\* listener takes in conn_tcp_thread
conn_get_channel_lock(t) ==
    /\ \/ WorkerCall(t)
       \/ t = "reader" /\ k_pc[t] = "idle" /\ k_res.registered
    /\ conn_mutex = "free"
    /\ conn_mutex' = t
    /\ k_loc' = [k_loc EXCEPT ![t].chan = l_channel, ![t].ret = "idle"]
    /\ k_pc' = [k_pc EXCEPT ![t] = "accessor_locked"]
    /\ k_ops' = IF t = "worker" THEN k_ops + 1 ELSE k_ops
    /\ k_h' = [k_h EXCEPT !.unlocked = @ \cup Access(t, {"l_channel"})]
    /\ UNCHANGED <<k_res, connvars, loopvars, regvars, pktvars>>

\* the pthread_mutex_unlock that ends those accessors
pthread_mutex_unlock(t) ==
    /\ k_pc[t] = "accessor_locked"
    /\ conn_mutex' = "free"
    /\ k_pc' = [k_pc EXCEPT ![t] = k_loc[t].ret]
    /\ k_loc' = [k_loc EXCEPT ![t] = Returned(t)]
    /\ UNCHANGED <<k_ops, k_res, k_h, connvars, loopvars, regvars, pktvars>>

\* a sub-protocol request leaves session state on the connection
adaptor_event_loop_session(which) ==
    /\ WorkerCall("worker")
    /\ nhacp_sessions' = (nhacp_sessions \/ which = "nhacp")
    /\ retronet' = (retronet \/ which = "retronet")
    /\ k_ops' = k_ops + 1
    /\ UNCHANGED <<conn_mutex, k_pc, k_loc, k_res, k_h, l_last_image,
                   l_channel, l_selected_file, retronet_enabled, loopvars,
                   regvars, pktvars>>

\* conn_get_selected_file_logic: the explicit selection, else the default
\* file of the channel, else NULL
conn_get_selected_file_logic ==
    IF l_selected_file # NULL THEN l_selected_file
    ELSE IF l_channel # NULL THEN ChannelDefaultFile(l_channel)
    ELSE NULL

\* conn_get_selected_file returns v
GotValue(h, v, oom) ==
    [h EXCEPT !.got.state = "done", !.got.value = v, !.got.oom = oom]

\* conn_get_selected_file: the first critical section
conn_get_selected_file_lock1(t) ==
    /\ t = "reader"
    /\ k_pc[t] \in {"idle", "g_retry"}
    /\ k_res.registered
    /\ conn_mutex = "free"
    /\ conn_mutex' = t
    /\ k_loc' = [k_loc EXCEPT
                    ![t].sel = conn_get_selected_file_logic,
                    ![t].len = IF conn_get_selected_file_logic # NULL
                               THEN FileLen(conn_get_selected_file_logic)
                               ELSE @]
    /\ k_pc' = [k_pc EXCEPT ![t] = "g_locked1"]
    /\ k_h' = [k_h EXCEPT
                  !.unlocked = @ \cup
                      Access(t, {"l_channel", "l_selected_file"}),
                  !.got = IF k_pc[t] = "idle"
                          THEN [state |-> "reading", clean |-> k_h.clean,
                                disturbed |-> FALSE, oom |-> FALSE,
                                value |-> NULL]
                          ELSE @]
    /\ UNCHANGED <<k_ops, k_res, connvars, loopvars, regvars, pktvars>>

\* the unlock after it; return NULL when nothing is selected
conn_get_selected_file_unlock1(t) ==
    /\ k_pc[t] = "g_locked1"
    /\ conn_mutex' = "free"
    /\ IF k_loc[t].sel = NULL
       THEN /\ k_pc' = [k_pc EXCEPT ![t] = "idle"]
            /\ k_loc' = [k_loc EXCEPT ![t] = Returned(t)]
            /\ k_h' = GotValue(k_h, NULL, FALSE)
       ELSE /\ k_pc' = [k_pc EXCEPT ![t] = "g_malloc"]
            /\ UNCHANGED <<k_loc, k_h>>
    /\ UNCHANGED <<k_ops, k_res, connvars, loopvars, regvars, pktvars>>

\* cp = malloc(len + 1); return NULL when it fails
conn_get_selected_file_malloc(t, ok) ==
    /\ k_pc[t] = "g_malloc"
    /\ IF ok
       THEN /\ k_pc' = [k_pc EXCEPT ![t] = "g_alloced"]
            /\ UNCHANGED <<k_loc, k_h>>
       ELSE /\ k_pc' = [k_pc EXCEPT ![t] = "idle"]
            /\ k_loc' = [k_loc EXCEPT ![t] = Returned(t)]
            /\ k_h' = GotValue(k_h, NULL, TRUE)
    /\ UNCHANGED <<conn_mutex, k_ops, k_res, connvars, loopvars, regvars,
                   pktvars>>

\* the second critical section: copy the selection if it still fits
conn_get_selected_file_lock2_nofit(t) ==
    /\ k_pc[t] = "g_alloced"
    /\ conn_mutex = "free"
    /\ conn_mutex' = t
    /\ LET sel == conn_get_selected_file_logic
           fits == sel # NULL
       IN  k_loc' = [k_loc EXCEPT
                        ![t].sel = IF fits THEN sel ELSE NULL,
                        ![t].cp = IF fits THEN sel ELSE NULL]
    /\ k_pc' = [k_pc EXCEPT ![t] = "g_locked2"]
    /\ k_h' = [k_h EXCEPT
                  !.unlocked = @ \cup
                      Access(t, {"l_channel", "l_selected_file"})]
    /\ UNCHANGED <<k_ops, k_res, connvars, loopvars, regvars, pktvars>>

conn_get_selected_file_lock2(t) ==
    /\ k_pc[t] = "g_alloced"
    /\ conn_mutex = "free"
    /\ conn_mutex' = t
    /\ LET sel == conn_get_selected_file_logic
           fits == sel # NULL /\ FileLen(sel) <= k_loc[t].len
       IN  k_loc' = [k_loc EXCEPT
                        ![t].sel = IF fits THEN sel ELSE NULL,
                        ![t].cp = IF fits THEN sel ELSE NULL]
    /\ k_pc' = [k_pc EXCEPT ![t] = "g_locked2"]
    /\ k_h' = [k_h EXCEPT
                  !.unlocked = @ \cup
                      Access(t, {"l_channel", "l_selected_file"})]
    /\ UNCHANGED <<k_ops, k_res, connvars, loopvars, regvars, pktvars>>

\* the unlock after it: return cp, or free(cp) and go round again
conn_get_selected_file_unlock2(t) ==
    /\ k_pc[t] = "g_locked2"
    /\ conn_mutex' = "free"
    /\ IF k_loc[t].sel # NULL
       THEN /\ k_pc' = [k_pc EXCEPT ![t] = "idle"]
            /\ k_h' = GotValue(k_h, k_loc[t].cp, FALSE)
       ELSE /\ k_pc' = [k_pc EXCEPT ![t] = "g_retry"]
            /\ UNCHANGED k_h
    /\ k_loc' = [k_loc EXCEPT ![t] = Returned(t)]
    /\ UNCHANGED <<k_ops, k_res, connvars, loopvars, regvars, pktvars>>

\* conn_thread: the event loop has returned, conn_destroy(conn)
conn_thread_destroy ==
    /\ k_pc["worker"] = "idle"
    /\ k_pc' = [k_pc EXCEPT !["worker"] = "d_remove"]
    /\ UNCHANGED <<conn_mutex, k_loc, k_ops, k_res, k_h, connvars, loopvars,
                   regvars, pktvars>>

\* conn_destroy: conn_remove, which waits until no enumerator borrows
\* the connection
conn_destroy_remove(t) ==
    /\ t \in {"creator", "worker"}
    /\ k_pc[t] = "d_remove"
    /\ k_pc["reader"] \in {"off", "idle"}
    /\ k_res' = [k_res EXCEPT !.registered = FALSE]
    /\ k_pc' = [k_pc EXCEPT ![t] = "d_image"]
    /\ UNCHANGED <<conn_mutex, k_loc, k_ops, k_h, connvars, loopvars,
                   regvars, pktvars>>

\* conn_destroy: image_release() of what conn_set_last_image(conn, NULL)
\* returned, then conn_reboot
conn_destroy_reboot(t) ==
    /\ k_pc[t] = "d_reboot"
    /\ k_res' = [k_res EXCEPT !.released = @ \cup {"last_image"}]
    /\ l_last_image' = conn_reboot.last_image
    /\ nhacp_sessions' = conn_reboot.nhacp
    /\ retronet' = conn_reboot.rn
    /\ k_pc' = [k_pc EXCEPT ![t] = "d_fini"]
    /\ UNCHANGED <<conn_mutex, k_loc, k_ops, k_h, l_channel, l_selected_file,
                   retronet_enabled, loopvars, regvars, pktvars>>

\* conn_destroy: pthread_mutex_destroy, conn_io_fini, free(file_root),
\* free(conn)
conn_destroy_free(t) ==
    /\ k_pc[t] = "d_fini"
    /\ conn_mutex' = "destroyed"
    /\ k_res' = [k_res EXCEPT
                    !.endpoint = "closed",
                    !.file_root = IF @ = "owned" THEN "freed" ELSE @,
                    !.conn = "freed"]
    /\ k_pc' = [k_pc EXCEPT ![t] = "done"]
    /\ UNCHANGED <<k_loc, k_ops, k_h, connvars, loopvars, regvars, pktvars>>

NextConn ==
    \/ \E ch \in {0} \cup Channels, sf \in {NULL, 2}, fr, ok \in BOOLEAN :
          conn_create_common_alloc(ch, sf, fr, ok)
    \/ \E t \in Threads, ch \in Channels : conn_set_channel_lock(t, ch)
    \/ \E t \in Threads : conn_set_channel_free(t)
    \/ conn_create_common_selected_file
    \/ \E ok \in BOOLEAN : conn_create_common_start(ok)
    \/ \E t \in Threads, f \in {NULL} \cup Files :
          conn_set_selected_file_lock(t, f)
    \/ \E t \in Threads : conn_set_selected_file_free(t)
    \/ \E t \in Threads : conn_get_last_image_lock(t)
    \/ \E t \in Threads, i \in {NoImage} \cup Images :
          conn_set_last_image_lock(t, i)
    \/ \E t \in Threads, m, i \in {NoImage} \cup Images :
          conn_set_last_image_if_lock(t, m, i)
    \/ \E t \in Threads : conn_get_channel_lock(t)
    \/ \E t \in Threads : pthread_mutex_unlock(t)
    \/ \E w \in {"nhacp", "retronet"} : adaptor_event_loop_session(w)
    \/ \E t \in Threads : conn_get_selected_file_lock1(t)
    \/ \E t \in Threads : conn_get_selected_file_unlock1(t)
    \/ \E t \in Threads, ok \in BOOLEAN : conn_get_selected_file_malloc(t, ok)
    \/ \E t \in Threads : conn_get_selected_file_lock2(t)
    \/ \E t \in Threads : conn_get_selected_file_unlock2(t)
    \/ conn_thread_destroy
    \/ \E t \in Threads : conn_destroy_remove(t)
    \/ \E t \in Threads : conn_destroy_reboot(t)
    \/ \E t \in Threads : conn_destroy_free(t)

SpecConn == Init /\ [][NextConn]_vars

C14_ReturnsNonNullIffMatch ==
    k_h.lif.called
        => (k_h.lif.ret # NoImage <=> k_h.lif.prior = k_h.lif.match)

\* C14 amended: it returns the prior l_last_image when that equals match
\* and null otherwise, so it returns non-null iff the prior value
\* equalled match and was not null.
C14_ReturnsPriorIfMatch ==
    k_h.lif.called
        => /\ k_h.lif.ret = (IF k_h.lif.prior = k_h.lif.match
                             THEN k_h.lif.prior ELSE NoImage)
           /\ k_h.lif.ret # NoImage
                 <=> (k_h.lif.prior = k_h.lif.match
                        /\ k_h.lif.prior # NoImage)

\* conn_set_last_image_if(conn, NULL, x) on a connection without cached
\* image has returned
C14_Witness ==
    /\ k_h.lif.called
    /\ k_h.lif.prior = NoImage /\ k_h.lif.match = NoImage
    /\ k_h.lif.ret = NoImage
    /\ k_pc["worker"] = "idle"

\* C18: l_last_image, l_channel and l_selected_file are never read or
\* written without conn->mutex held.
C18_FieldsUnderMutex ==
    k_h.unlocked = {}

\* C19: when conn_destroy completes the connection is out of the
\* registry, its cached image released, its sub-protocol state gone, its
\* endpoint closed, and file_root and l_selected_file freed.
C19_DestroyReleasesAll ==
    k_res.conn = "freed"
        => /\ ~k_res.registered
           /\ l_last_image = NoImage /\ "last_image" \in k_res.released
           /\ ~nhacp_sessions /\ ~retronet
           /\ k_res.endpoint = "closed"
           /\ k_res.file_root # "owned"
           /\ k_res.sel_alloc = 0

\* =====================================================================
\* the registry under concurrent creation, destruction and enumeration
\* =====================================================================

\* C29: a connection that conn_destroy has freed is never inserted into
\* the registry afterwards nor left linked in it: conn_list only holds
\* connections that have not been destroyed.
C29_RegistryHoldsLiveOnly ==
    \A c \in Conns : InList(c) => mem[c] = "live"

\* the enumerators between the enum_count++ and the enum_count-- of a
\* loop iteration on connection c: in the callback, or back from it and
\* about to take the list lock again
Borrowers(c) ==
    {e \in Enums : en_pc[e] \in {"callback", "relock"} /\ en_cur[e] = c}

C21_PacketLengthBounded ==
    p_pc = "sent"
        => /\ p_res.asserted
           /\ ~p_res.fatal
           /\ p_res.auth => p_res.pktlen <= NABU_MAXPACKETSIZE
           /\ (p_res.auth /\ NonPak(p_img.img))
                 => p_res.pktlen =
                        NABU_HEADERSIZE
                          + (p_res.payload.to - p_res.payload.from)
                          + NABU_FOOTERSIZE

\* a raw packet of the largest size has been built
C21_Witness ==
    /\ p_pc = "sent" /\ NonPak(p_img.img)
    /\ p_res.auth /\ ~p_res.last
    /\ p_res.pktlen = NABU_MAXPACKETSIZE
    /\ p_res.payload.to - p_res.payload.from = NABU_MAXPAYLOADSIZE

\* C23: for a PAK image of length L and segment s, with
\* off = s * TOTAL + 2s + 2 and len = min(TOTAL, L - off), adaptor_send_pak
\* refuses when off >= L or len < HEADER + FOOTER, reads no image byte at
\* an index >= L, and otherwise hands over exactly the slice
\* [off, off + len) with its last 2 bytes replaced by the CRC of the
\* first len - 2.  Stated for a call whose malloc succeeds where a
\* packet is expected.
C23_PakSlice ==
    (p_pc = "sent" /\ ~NonPak(p_img.img))
        => LET s == p_img.segment
               L == p_img.img.length
               off == (s * NABU_TOTALPAYLOADSIZE) + (2 * s) + 2
               len == IF L - off < NABU_TOTALPAYLOADSIZE
                      THEN L - off ELSE NABU_TOTALPAYLOADSIZE
               refuse == off >= L \/ len < NABU_HEADERSIZE + NABU_FOOTERSIZE
           IN  /\ refuse => ~p_res.auth
               /\ (~refuse /\ p_img.malloc_ok) => p_res.auth
               /\ p_res.payload.to <= L
               /\ p_res.auth
                     => /\ p_res.pktlen = len
                        /\ p_res.payload = [from |-> off, to |-> off + len]
                        /\ p_res.hdr = NoHdr
                        /\ p_res.crc = [over |-> len - 2, at |-> len - 2]

\* the second, truncated slice of a PAK has been handed over
C23_Witness ==
    /\ p_pc = "sent" /\ ~NonPak(p_img.img)
    /\ p_img.segment = 1 /\ p_img.img.length = 1982
    /\ p_res.auth /\ p_res.last
    /\ p_res.payload = [from |-> 1013, to |-> 1982]
    /\ p_res.crc.at = 967

\* C24: adaptor_msg_packet_request never calls image_load() for
\* NABU_IMAGE_TIME, whatever the segment: segment 0 goes to the time
\* packet builder (which reports the last segment, and whose packet is
\* the time record in a frame), every other segment gets UNAUTHORIZED.
C24_TimeImageNotLoaded ==
    a_req.image = NABU_IMAGE_TIME =>
        /\ a_req.loaded = "na"
        /\ a_pc \in {"ack1", "ack2"} =>
              /\ ~a_ack.unload /\ a_ack.img = NoImage
              /\ a_req.segment = 0 =>
                    /\ a_ack.last
                    /\ a_ack.for = "pkt" =>
                          a_ack.pktlen = NABU_HEADERSIZE + NABU_TIMESIZE
                                            + NABU_FOOTERSIZE
              /\ a_req.segment # 0 => a_ack.for = "unauth" /\ ~a_ack.last
        /\ a_req.segment # 0 =>
              out = conn_send_byte(
                        conn_send_byte(NABU_MSGSEQ_ACK, NABU_STATE_CONFIRMED),
                        NABU_SERVICE_UNAUTHORIZED)
        /\ l_last_image = NoImage \/ l_last_image.number # NABU_IMAGE_TIME

\* segment 1 of the time image was refused on a connection that has a
\* channel, and the client acknowledged
C24_Witness ==
    /\ a_req.image = NABU_IMAGE_TIME /\ a_req.segment = 1
    /\ a_req.acked = "ok" /\ l_channel # NULL

\* the time packet is on its way for segment 0
C24_WitnessTime ==
    /\ a_req.image = NABU_IMAGE_TIME /\ a_req.segment = 0
    /\ a_req.acked = "ok" /\ Len(out) > 4

\* the request in a_req is for a segment that starts at or past the end
\* of a loaded image that is not a PAK
C22_Case ==
    /\ a_req.loaded = "image"
    /\ NonPak(image_load(a_req.image))
    /\ a_req.segment * NABU_MAXPAYLOADSIZE >= image_load(a_req.image).length

\* C22: for a non-PAK segment with segment * MAXPAYLOAD >= length,
\* adaptor_send_image sends UNAUTHORIZED and waits for the ACK, sends
\* neither AUTHORIZED nor a packet, returns false (the image stays
\* cached), and the loop goes on to the next opcode with the endpoint
\* as healthy as the ACK wait left it.
C22_OutOfRangeSegment ==
    C22_Case =>
        /\ out = conn_send_byte(
                      conn_send_byte(NABU_MSGSEQ_ACK, NABU_STATE_CONFIRMED),
                      NABU_SERVICE_UNAUTHORIZED)
        /\ a_req.acked = "none" =>
              /\ a_pc \in {"ack1", "ack2"}
              /\ a_ack.for = "unauth" /\ ~a_ack.last /\ a_ack.unload
              /\ io_state = "OK"
        /\ a_req.acked # "none" =>
              /\ a_pc \in {"top", "wait_opcode", "returned"}
              /\ a_handled = "classic"
              /\ l_last_image = image_load(a_req.image)
        /\ a_req.acked = "ok" /\ a_pc = "top" => io_state = "OK"

\* segment 1 of a raw image of exactly MAXPAYLOAD bytes was refused and
\* the loop waits for the next opcode
C22_Witness ==
    /\ C22_Case /\ a_req.acked = "ok" /\ a_pc = "wait_opcode"
    /\ a_req.segment * NABU_MAXPAYLOADSIZE
          = image_load(a_req.image).length

\* C27: when the body of a PACKET_REQUEST or CHANGE_CHANNEL does not
\* arrive the handler marks the connection ABORTED and returns: only the
\* ACK was sent, no image was loaded, and the cached image, the channel
\* and the selected file are what they were.
C27_BodyFailAborts ==
    [][(a_pc \in {"pr_recv", "cc_recv"} /\ a_pc' # a_pc /\ nrecv' = nrecv)
          => /\ io_state' = "ABORTED"
             /\ out = NABU_MSGSEQ_ACK /\ out' = out
             /\ a_req'.loaded = "na" /\ a_req'.image = -1
             /\ l_last_image' = l_last_image
             /\ l_channel' = l_channel
             /\ l_selected_file' = l_selected_file
             /\ retronet_enabled' = retronet_enabled
             /\ a_pc' = "top"]_vars

\* a CHANGE_CHANNEL whose body never came, on a connection that had a
\* channel selected
C27_Witness ==
    /\ a_pc = "top" /\ io_state = "ABORTED" /\ a_handled = "classic"
    /\ msg = NABU_MSG_CHANGE_CHANNEL /\ out = NABU_MSGSEQ_ACK
    /\ l_channel # NULL

\* C25: adaptor_msg_classic never reads adaptor_msg_types at an index
\* greater than or equal to adaptor_msg_type_count.
C25_TableReadInBounds ==
    a_pc = "dispatch" =>
        \A i \in adaptor_msg_classic_reads(msg) : i < adaptor_msg_type_count

\* C26: whatever conn_set_selected_file and conn_set_channel calls run
\* beside it, conn_get_selected_file copies the re-read selection only
\* when its length is at most the length it allocated for, the string it
\* returns is the effective selection (the explicit file, else the
\* default file of the channel) of its last locked re-read, and it
\* returns null when the first read of an iteration finds no selection.
C26_CopyFitsAndIsCurrent ==
    /\ [](k_pc["reader"] = "g_locked2" =>
            IF k_loc["reader"].cp # NULL
            THEN /\ FileLen(k_loc["reader"].cp) <= k_loc["reader"].len
                 /\ k_loc["reader"].cp = conn_get_selected_file_logic
            ELSE \/ conn_get_selected_file_logic = NULL
                 \/ FileLen(conn_get_selected_file_logic)
                       > k_loc["reader"].len)
    /\ [][(k_pc["reader"] = "g_locked2" /\ k_pc'["reader"] = "idle")
            => /\ k_h'.got.state = "done"
               /\ k_h'.got.value # NULL
               /\ k_h'.got.value = conn_get_selected_file_logic
               /\ FileLen(k_h'.got.value) <= k_loc["reader"].len]_vars
    /\ [][(k_pc["reader"] = "g_locked1" /\ k_pc'["reader"] # "g_locked1")
            => IF conn_get_selected_file_logic = NULL
               THEN /\ k_pc'["reader"] = "idle"
                    /\ k_h'.got.state = "done"
                    /\ k_h'.got.value = NULL
               ELSE /\ k_pc'["reader"] = "g_malloc"
                    /\ k_loc["reader"].len
                          = FileLen(conn_get_selected_file_logic)]_vars

\* the selection became shorter between the two reads and was copied
\* into the buffer allocated for the longer one
C26_Witness ==
    /\ k_pc["reader"] = "g_locked2"
    /\ k_loc["reader"].cp # NULL
    /\ FileLen(k_loc["reader"].cp) < k_loc["reader"].len

\* the selection became longer between the two reads: nothing is copied
\* and the call goes round again
C26_WitnessRetry ==
    /\ k_pc["reader"] = "g_locked2"
    /\ k_loc["reader"].cp = NULL
    /\ conn_get_selected_file_logic # NULL

\* ------------------------------------------------ the registry, fairly
\* the steps a scheduler owes the registry's threads: a callback that
\* was invoked returns, the enumerator back from its callback takes the
\* list lock, the remover whose loop test is false unlinks, and the
\* holder of the list lock reaches its unlock.  Nothing makes a
\* connection's loop return, a new connection arrive, an enumeration
\* start, or pthread_cond_wait() return without a broadcast.
RegistryProgress ==
    \/ \E e \in Enums, r \in BOOLEAN : conn_enumerate_callback(e, r)
    \/ \E e \in Enums : conn_enumerate_release(e)
    \/ \E c \in Conns : conn_remove_unlink(c)
    \/ \E c \in Conns : conn_remove_flag(c)
    \/ conn_insert_flag

\* where the registry's threads are
regpcs == <<t_pc, en_pc, cr_pc>>

\* fair scheduling at its weakest: while one of these steps is possible,
\* one of them is eventually taken
FairRegistry == WF_regpcs(RegistryProgress)

SpecLive == Init /\ [][Next]_vars /\ FairRegistry

\* the thread of connection c is inside conn_remove, past the test of
\* on_list
InRemove(c) == t_pc[c] \in {"rm_lock", "rm_wait", "rm_woken", "rm_unlinked"}

\* C28: under fair scheduling and with every callback returning, a
\* conn_remove that found the connection registered does not stay inside
\* forever, and it leaves only with the connection unlinked; every
\* decrement of an enum_count wakes all the removers that sleep on the
\* condition variable, and no remover sleeps while the enum_count of its
\* connection is 0.
C28_RemoveCompletes ==
    /\ \A c \in Conns : []<>(~InRemove(c))
    /\ [][\A c \in Conns :
            (InRemove(c) /\ ~InRemove(c)')
                => /\ t_pc'[c] = "teardown"
                   /\ c \notin Range(conn_list')
                   /\ ~on_list'[c]]_vars
    /\ [](\A c \in Conns :
            t_pc[c] = "rm_wait"
                => (enum_count[c] # 0 /\ c \in conn_list_enum_cv))
    /\ [][\A c \in Conns :
            enum_count'[c] < enum_count[c]
                => /\ conn_list_enum_cv' = {}
                   /\ \A d \in conn_list_enum_cv : t_pc'[d] = "rm_woken"]_vars

\* a remover that slept behind a borrow has returned from conn_remove
\* after the enumeration released it
C28_Witness ==
    \E c \in Conns, e \in Enums :
        /\ rm_blocked[c] /\ t_pc[c] \in {"teardown", "done"}
        /\ ~InList(c) /\ ~on_list[c]
        /\ en_pc[e] = "done" /\ en_h[e].bcast

====
